---- MODULE Spec2Model ----
(***************************************************************************)
(* Model of the disclosure-ingestion pipeline of utils.py:                 *)
(*   - the document pickers edinet_pick_latest_doc_debug and               *)
(*     edinet_pick_latest_doc (one day's result set -> one document),      *)
(*   - the day scan of autofill_financials_from_edinet,                    *)
(*   - _safe_div,                                                          *)
(*   - pick_current_previous and build_payload.                            *)
(*                                                                         *)
(* Text is modelled as a sequence of characters, so that substring tests,  *)
(* split and zfill are computed and not assumed.  The falsy values None    *)
(* and "" of a text field are both the empty sequence: the code coalesces  *)
(* them itself (r.get(..) or "", `if not sec_code_4`).  A timestamp is a   *)
(* natural number in chronological order (EDINET timestamps are fixed      *)
(* format, so the code's string comparison is chronological); 0 is the     *)
(* falsy timestamp (None or "").                                           *)
(***************************************************************************)
EXTENDS Integers, Sequences, FiniteSets, TLC

VARIABLES
    pc,            \* position of the modelled call
    ticker,        \* autofill_financials_from_edinet: ticker argument
    sec_code_4,    \* picker argument / sec4 of the scan
    results,       \* the result set handed to the picker (last day's results)
    picked,        \* value returned by the picker
    i,             \* scan: loop variable of range(0, min(10, search_days))
    test_results,  \* scan: list of (date, count)
    dayLog,        \* history: one entry per day queried, with what came back
    chosen,        \* scan: the chosen document
    err,           \* exception raised to the caller of autofill ("none" if none)
    nQueries,      \* history: index queries issued
    nFetches,      \* history: document-content fetches issued
    a, b, q,       \* _safe_div: arguments and returned value
    series,        \* pick_current_previous: argument
    cur, prev, cur_date, prev_date,   \* pick_current_previous: returned tuple
    current, previous,                \* autofill: the payloads returned
    member,        \* parse_xbrl_series: position in xbrl_files (0 before the loop)
    ctx,           \* parse_xbrl_series: context map of the member being scanned
    facts,         \* history: the elements scanned so far, with their member
    config,        \* the configured BULL_GROWTH and DCF_HORIZON_YEARS
    health, profitability, growth, income_value, price_metrics
                   \* what the five calc_ functions returned

vars == <<pc, ticker, sec_code_4, results, picked, i, test_results, dayLog, chosen,
          err, nQueries, nFetches, a, b, q, series, cur, prev, cur_date, prev_date,
          current, previous, member, ctx, facts, config, health, profitability,
          growth, income_value, price_metrics>>

pickVars == <<results, picked>>
scanVars == <<i, test_results, dayLog, chosen, err, nQueries, nFetches>>
divVars == <<a, b, q>>
periodVars == <<series, cur, prev, cur_date, prev_date, current, previous>>
parseVars == <<member, ctx, facts>>
metricVars == <<config, health, profitability, growth, income_value, price_metrics>>

\* Python's None.  An optional value is None or Some(v), and Val takes v back out.
None == <<>>
Some(v) == <<v>>
Val(x) == x[1]

Min(S) == CHOOSE x \in S : \A y \in S : x <= y
Max(S) == CHOOSE x \in S : \A y \in S : x >= y

---------------------------------------------------------------------------
(* Text helpers *)

\* Python `pat in s` on strings.
Contains(pat, s) ==
    \E k \in 0..(Len(s) - Len(pat)) : SubSeq(s, k + 1, k + Len(pat)) = pat

Digits == {"0", "1", "2", "3", "4", "5", "6", "7", "8", "9"}

\* str.isdigit(): non-empty and every character a digit.
IsDigit(s) == Len(s) > 0 /\ \A k \in 1..Len(s) : s[k] \in Digits

\* str.split(".")[0]: the text before the first dot.
SplitDot0(s) ==
    LET dots == {k \in 1..Len(s) : s[k] = "."}
    IN  IF dots = {} THEN s ELSE SubSeq(s, 1, Min(dots) - 1)

\* str.zfill(4) on a text of digits.
RECURSIVE zfill4(_)
zfill4(s) == IF Len(s) >= 4 THEN s ELSE zfill4(<<"0">> \o s)

\* autofill_financials_from_edinet: ticker -> sec4 (<<>> stands for None).
Sec4Of(t) ==
    LET ticker_clean == SplitDot0(t)
    IN  IF IsDigit(ticker_clean) THEN zfill4(ticker_clean) ELSE <<>>

---------------------------------------------------------------------------
(* Documents of the index *)

\* (ordinance code, form code, form name), in priority order.
EDINET_FORMS ==
    << <<"010", "030000", "annual securities report">>,
       <<"010", "043000", "quarterly report">>,
       <<"010", "053000", "semi-annual report">> >>

\* The katakana name of the alias table, one element per character.
Toyota_kana == <<"to", "yo", "ta">>
TOYOTA == <<"T", "O", "Y", "O", "T", "A">>

\* The hard-coded alias table of edinet_pick_latest_doc_debug.
company_names ==
    [c \in { <<"7", "2", "0", "3">>, <<"8", "3", "0", "6">>,
             <<"9", "9", "8", "4">>, <<"6", "7", "5", "8">> } |->
        CASE c = <<"7", "2", "0", "3">> -> <<Toyota_kana, TOYOTA>>
          [] c = <<"8", "3", "0", "6">> -> << <<"mi", "tsu", "bishi", "U", "F", "J">>,
                                              <<"M", "U", "F", "G">> >>
          [] c = <<"9", "9", "8", "4">> -> << <<"so", "fu", "to", "ba", "n", "ku">>,
                                              <<"S", "o", "f", "t", "B", "a", "n", "k">> >>
          [] c = <<"6", "7", "5", "8">> -> << <<"so", "ni", "-">>,
                                              <<"S", "O", "N", "Y">> >>]

\* The value the pickers return for "no document" (None).
NoneDoc ==
    [docID |-> 0, secCode |-> <<>>, title |-> <<>>, docDescription |-> <<>>,
     ordinanceCode |-> "", formCode |-> "", submitDateTime |-> 0, periodEnd |-> 0]

\* Who files a document of the modelled index, as the texts it carries:
\*   "code"   the target, security code 72030 in secCode
\*   "title"  the target, ticker text in the title only
\*   "alias1" no code, the katakana name in the title
\*   "alias2" no code, the latin name in the description
\*   "other"  an unrelated filer
Filers == {"code", "title", "alias1", "alias2", "other"}

FilerSecCode(f) ==
    CASE f = "code"  -> <<"7", "2", "0", "3", "0">>
      [] f = "other" -> <<"1", "3", "0", "1", "0">>
      [] OTHER       -> <<>>

FilerTitle(f) ==
    CASE f = "title"  -> <<"7", "2", "0", "3", ".", "T">>
      [] f = "alias1" -> Toyota_kana \o <<"-">>
      [] f = "other"  -> <<"X">>
      [] OTHER        -> <<>>

FilerDescription(f) ==
    CASE f = "alias2" -> <<"(">> \o TOYOTA \o <<")">>
      [] OTHER        -> <<>>

\* Form kinds of the modelled index: the three tiers and one form outside them.
FormOrdinance(k) == IF k \in 1..3 THEN EDINET_FORMS[k][1] ELSE "010"
FormCode(k) == IF k \in 1..3 THEN EDINET_FORMS[k][2] ELSE "180000"

\* Timestamps carried by a document, as (submitDateTime, periodEnd): submitted at
\* time 1 with no period end, submitted at time 2 for the period ending at 1, or no
\* submission timestamp and a period end at time 3.
Stamps == { <<1, 0>>, <<2, 1>>, <<0, 3>> }

FilerNo(f) ==
    CASE f = "code" -> 1 [] f = "title" -> 2 [] f = "alias1" -> 3
      [] f = "alias2" -> 4 [] OTHER -> 5

MkDoc(f, k, st) ==
    [docID |-> FilerNo(f) * 100 + k * 10 + st[1] + st[2],
     secCode |-> FilerSecCode(f), title |-> FilerTitle(f),
     docDescription |-> FilerDescription(f),
     ordinanceCode |-> FormOrdinance(k), formCode |-> FormCode(k),
     submitDateTime |-> st[1], periodEnd |-> st[2]]

\* The documents an index response is drawn from.  A form outside the three tiers
\* is never sorted, so one timestamp is enough for it.
DocUniverse ==
    {MkDoc(f, k, st) : f \in Filers, k \in 1..3, st \in Stamps}
        \cup {MkDoc(f, 4, <<1, 0>>) : f \in Filers}

---------------------------------------------------------------------------
(* The pickers *)

\* key=lambda x: (x.get("submitDateTime") or x.get("periodEnd") or "")
SortKey(x) == IF x.submitDateTime # 0 THEN x.submitDateTime ELSE x.periodEnd

\* list.sort(key=SortKey, reverse=True): stable, so documents of equal key keep
\* their order.  Insert(x, s) puts x after every element of key >= its own.
\* Mutant of InsertDesc: reverse=True forgotten, the sort ascends.
RECURSIVE InsertAsc(_, _)
InsertAsc(x, s) ==
    IF s = <<>> THEN <<x>>
    ELSE IF SortKey(Head(s)) <= SortKey(x) THEN <<Head(s)>> \o InsertAsc(x, Tail(s))
    ELSE <<x>> \o s

RECURSIVE InsertDesc(_, _)
InsertDesc(x, s) ==
    IF s = <<>> THEN <<x>>
    ELSE IF SortKey(Head(s)) >= SortKey(x) THEN <<Head(s)>> \o InsertDesc(x, Tail(s))
    ELSE <<x>> \o s

RECURSIVE SortDesc(_)
SortDesc(s) ==
    IF s = <<>> THEN <<>>
    ELSE InsertDesc(s[Len(s)], SortDesc(SubSeq(s, 1, Len(s) - 1)))

InTier(r, t) ==
    r.ordinanceCode = EDINET_FORMS[t][1] /\ r.formCode = EDINET_FORMS[t][2]

\* Mutant of PickFromTiers: the latest document of any tier, the tier order ignored.
PickLatestOfAnyTier(docs) ==
    LET tiered == SelectSeq(docs, LAMBDA r : \E t \in 1..Len(EDINET_FORMS) : InTier(r, t))
    IN  IF tiered = <<>> THEN NoneDoc ELSE Head(SortDesc(tiered))

\* for ord_code, form_code, form_name in EDINET_FORMS: tier = [...];
\* if tier: tier.sort(...); return tier[0]     (NoneDoc when the loop falls through)
PickFromTiers(docs) ==
    LET Tier(t) == SelectSeq(docs, LAMBDA r : InTier(r, t))
        hit == {t \in 1..Len(EDINET_FORMS) : Tier(t) # <<>>}
    IN  IF hit = {} THEN NoneDoc ELSE Head(SortDesc(Tier(Min(hit))))

\* edinet_pick_latest_doc_debug.match_sec
match_sec_debug(r, sec4) ==
    IF sec4 = <<>> THEN TRUE
    ELSE LET search_targets == {r.secCode, r.title, r.docDescription}
             patterns_to_check == {sec4, zfill4(sec4), sec4 \o <<".", "T">>,
                                   sec4 \o <<"0">>}
         IN  \E pattern \in patterns_to_check :
                 \E target \in search_targets : Contains(pattern, target)

\* name in (r.get("title") or "") or name in (r.get("docDescription") or "")
NameMatch(r, name) == Contains(name, r.title) \/ Contains(name, r.docDescription)

\* The alias branch of edinet_pick_latest_doc_debug: the first name of the table
\* entry whose matches have a document in some tier decides.
AliasPick(rs, sec4) ==
    LET names == company_names[sec4]
        name_matches(j) == SelectSeq(rs, LAMBDA r : NameMatch(r, names[j]))
        good == {j \in 1..Len(names) : PickFromTiers(name_matches(j)) # NoneDoc}
    IN  IF good = {} THEN NoneDoc ELSE PickFromTiers(name_matches(Min(good)))

\* Mutant of edinet_pick_latest_doc_debug: the alias table is consulted first,
\* whether or not a document matches by code.
pick_alias_first(rs, sec4) ==
    LET matching_docs == SelectSeq(rs, LAMBDA r : match_sec_debug(r, sec4))
        by_name == IF sec4 # <<>> /\ sec4 \in DOMAIN company_names
                   THEN AliasPick(rs, sec4)
                   ELSE NoneDoc
    IN  IF by_name # NoneDoc THEN by_name ELSE PickFromTiers(matching_docs)

\* Mutant of edinet_pick_latest_doc_debug: only the annual tier is looked at on a
\* day, the lower tiers are left to a later pass.
pick_annual_only(rs, sec4) ==
    LET matching_docs == SelectSeq(rs, LAMBDA r : match_sec_debug(r, sec4) /\ InTier(r, 1))
    IN  PickFromTiers(matching_docs)

edinet_pick_latest_doc_debug(rs, sec4) ==
    LET matching_docs == SelectSeq(rs, LAMBDA r : match_sec_debug(r, sec4))
        by_name == IF matching_docs = <<>> /\ sec4 # <<>> /\ sec4 \in DOMAIN company_names
                   THEN AliasPick(rs, sec4)
                   ELSE NoneDoc
    IN  IF by_name # NoneDoc THEN by_name ELSE PickFromTiers(matching_docs)

\* edinet_pick_latest_doc.match_sec
match_sec(r, sec4) ==
    IF sec4 = <<>> THEN TRUE
    ELSE \/ r.secCode = sec4
         \/ Contains(sec4, r.title)
         \/ /\ Len(sec4) < 4
            /\ (r.secCode = zfill4(sec4) \/ Contains(zfill4(sec4), r.title))

edinet_pick_latest_doc(rs, sec4) ==
    PickFromTiers(SelectSeq(rs, LAMBDA r : match_sec(r, sec4)))

---------------------------------------------------------------------------
(* _safe_div *)

Abs(x) == IF x < 0 THEN -x ELSE x

RECURSIVE Gcd(_, _)
Gcd(x, y) == IF y = 0 THEN x ELSE Gcd(y, x % y)

\* The quotient x / y (y # 0) as the fraction <<numerator, denominator>> in lowest
\* terms with a positive denominator: the value of float(a) / float(b).
Quotient(x, y) ==
    LET g == Gcd(Abs(x), Abs(y))
        sgn == IF y < 0 THEN -1 ELSE 1
    IN  <<(sgn * x) \div g, (sgn * y) \div g>>

\* Mutant of _safe_div: the guard written `if not a or not b`, so that a zero
\* numerator is taken for a missing one.
safe_div_falsy(x, y) ==
    IF x = None \/ x = Some(0) \/ y \in {None, Some(0)} THEN None
    ELSE Some(Quotient(Val(x), Val(y)))

\* _safe_div(a, b) on optional integers.
safe_div(x, y) ==
    IF x = None \/ y \in {None, Some(0)} THEN None
    ELSE Some(Quotient(Val(x), Val(y)))

---------------------------------------------------------------------------
(* Series, pick_current_previous, build_payload *)

\* The empty dict {}.
EmptyDict == [k \in {} |-> None]

\* dict.get(k): Some(value), or None when the key is missing.
Get(d, k) == IF k \in DOMAIN d THEN Some(d[k]) ELSE None

\* dict.get(k) on a dict of optional values: a missing key and a None value both
\* give None.
GetOpt(d, k) == IF k \in DOMAIN d THEN d[k] ELSE None

\* dict.get(k, default) on a dict of numbers.
GetOr(d, k, default) == IF k \in DOMAIN d THEN d[k] ELSE default

\* The keys of XBRL_TAGS_LOCAL.
ConceptKeys ==
    {"sales", "cogs", "op", "ord", "net", "assets", "equity", "tl", "ca", "cl", "inv",
     "ar", "cash", "stinv", "invest", "ppe", "intan", "debt_short", "debt_long",
     "bonds", "ocf", "capex", "dep_amort", "shares"}

\* set().union(*[set(v.keys()) for v in series.values()])
SeriesDates(sr) == UNION {DOMAIN sr[k] : k \in DOMAIN sr}

\* series.get(k, {})
SeriesOf(sr, k) == IF k \in DOMAIN sr THEN sr[k] ELSE EmptyDict

\* Mutant of DebtWritten: the guard is missing, debt is written for every date.
DebtWrittenAlways(debt) == TRUE

\* if debt != 0.0
DebtWritten(debt) == debt # 0

\* Mutant of Magnitude: abs() forgotten.
MagnitudeSigned(x) == x

\* abs(series["capex"][d]), abs(series["dep_amort"][d])
Magnitude(x) == IF x < 0 THEN -x ELSE x

\* The synthesis loop at the end of parse_xbrl_series: debt, fcf and ebitda per
\* date; a synthesized key exists only if it was written for some date.
Synthesize(sr) ==
    LET dates == SeriesDates(sr)
        debt(d) == GetOr(SeriesOf(sr, "debt_short"), d, 0)
                   + GetOr(SeriesOf(sr, "debt_long"), d, 0)
                   + GetOr(SeriesOf(sr, "bonds"), d, 0)
        debtDates == {d \in dates : DebtWritten(debt(d))}
        fcfDates == {d \in dates : d \in DOMAIN SeriesOf(sr, "ocf")
                                   /\ d \in DOMAIN SeriesOf(sr, "capex")}
        ebitdaDates == {d \in dates : d \in DOMAIN SeriesOf(sr, "op")
                                      /\ d \in DOMAIN SeriesOf(sr, "dep_amort")}
        synth == (IF debtDates # {} THEN {"debt"} ELSE {})
                 \cup (IF fcfDates # {} THEN {"fcf"} ELSE {})
                 \cup (IF ebitdaDates # {} THEN {"ebitda"} ELSE {})
    IN  [k \in DOMAIN sr \cup synth |->
            CASE k = "debt" /\ debtDates # {} ->
                    [d \in debtDates \cup DOMAIN SeriesOf(sr, "debt") |->
                        IF d \in debtDates THEN debt(d) ELSE sr["debt"][d]]
              [] k = "fcf" /\ fcfDates # {} ->
                    [d \in fcfDates \cup DOMAIN SeriesOf(sr, "fcf") |->
                        IF d \in fcfDates THEN sr["ocf"][d] - Magnitude(sr["capex"][d])
                        ELSE sr["fcf"][d]]
              [] k = "ebitda" /\ ebitdaDates # {} ->
                    [d \in ebitdaDates \cup DOMAIN SeriesOf(sr, "ebitda") |->
                        IF d \in ebitdaDates THEN sr["op"][d] + Magnitude(sr["dep_amort"][d])
                        ELSE sr["ebitda"][d]]
              [] OTHER -> sr[k]]

\* Mutant of at_date: only the concepts that have a value at d become keys.
at_date_sparse(sr, d) ==
    IF d = None THEN EmptyDict
    ELSE [k \in {c \in DOMAIN sr : Val(d) \in DOMAIN sr[c]} |-> Get(sr[k], Val(d))]

\* pick_current_previous.at_date
at_date(sr, d) ==
    IF d = None THEN EmptyDict
    ELSE [k \in DOMAIN sr |-> Get(sr[k], Val(d))]

\* Mutant of OlderDate: `d <= latest` written for `d < latest`.
OlderDateInclusive(dates, latest) ==
    LET before == {d \in dates : d <= latest}
    IN  IF before = {} THEN None ELSE Some(Max(before))

\* max([d for d in dates if d < latest], default=None)
OlderDate(dates, latest) ==
    LET before == {d \in dates : d < latest}
    IN  IF before = {} THEN None ELSE Some(Max(before))

\* pick_current_previous(series) -> (cur, prev, latest, older)
pick_current_previous(sr) ==
    LET dates == SeriesDates(sr)
    IN  IF dates = {}
        THEN [cur |-> EmptyDict, prev |-> EmptyDict, latest |-> None, older |-> None]
        ELSE LET latest == Max(dates)
                 older == OlderDate(dates, latest)
             IN  [cur |-> at_date(sr, Some(latest)), prev |-> at_date(sr, older),
                  latest |-> Some(latest), older |-> older]

\* The keys of the dict build_payload returns.
PayloadKeys ==
    {"sales", "cogs", "op", "ord", "net", "ocf", "fcf", "assets", "equity", "ca", "inv",
     "cl", "tl", "debt", "cash", "ar", "stinv", "invest", "ppe", "intan", "shares",
     "price", "ebitda", "tax", "wacc"}

\* The rates build_payload sets, in percent: tax=0.30, wacc=0.10.
PayloadTax == 30
PayloadWacc == 10

\* autofill_financials_from_edinet.build_payload
build_payload(src) ==
    [k \in PayloadKeys |->
        CASE k = "price" -> None
          [] k = "tax"   -> Some(PayloadTax)
          [] k = "wacc"  -> Some(PayloadWacc)
          [] OTHER       -> GetOpt(src, k)]

\* previous = build_payload(prev) if prev else {}
previous_payload(p) == IF p # EmptyDict THEN build_payload(p) ELSE EmptyDict

---------------------------------------------------------------------------
(* The day scan of autofill_financials_from_edinet *)

\* search_days = 90
search_days == 90

\* The days the loop visits: range(0, min(10, search_days)).
FirstCheckDays == 10
ScanDays == Min({FirstCheckDays, search_days})

\* today = dt.date.today(), as a day number; day i of the scan is Today - i.
Today == 100
DateOf(j) == Today - j

\* What is raised to the caller: nothing, the RuntimeError of a scan without match
\* (its message carries sec4, search_days and the lines of test_results), or the
\* exception of the content fetch.
NoError == [kind |-> "none", code |-> <<>>, days |-> 0, counts |-> <<>>]
NotFoundError(sec4, tr) ==
    [kind |-> "notfound", code |-> sec4, days |-> search_days, counts |-> tr]
FetchError == [kind |-> "fetch", code |-> <<>>, days |-> 0, counts |-> <<>>]
IndexError == [kind |-> "index", code |-> <<>>, days |-> 0, counts |-> <<>>]

\* Mutant of AfterDay: the `break` is missing, the loop runs to its last day.
AfterDayNoBreak(j, found) ==
    IF j + 1 < ScanDays THEN "scan"
    ELSE IF found = NoneDoc THEN "raised"
    ELSE "fetch"

\* Where control goes after day j was handled, with `found` the document chosen so
\* far: `break` on a match, the next day, or past the loop, where a scan without
\* match raises and a match leads to the content fetch.
AfterDay(j, found) ==
    IF found = NoneDoc /\ j + 1 < ScanDays THEN "scan"
    ELSE IF found = NoneDoc THEN "raised"
    ELSE "fetch"

---------------------------------------------------------------------------
(* Inputs *)

\* Tickers the user may enter: a numeric one with an alias-table entry and a
\* non-numeric one.
Tickers == { <<"7", "2", "0", "3", ".", "T">>, <<"A", "A", "P", "L">> }

\* Longest result set handed to a picker.
MaxDocs == 2

ResultSets == UNION {[1..n -> DocUniverse] : n \in 0..MaxDocs}

\* Values of the variables a specification does not use.
IdlePick == results = <<>> /\ picked = NoneDoc
IdleScan ==
    /\ i = 0 /\ test_results = <<>> /\ dayLog = <<>>
    /\ chosen = NoneDoc /\ err = NoError /\ nQueries = 0 /\ nFetches = 0
IdleDiv == a = None /\ b = None /\ q = None
IdlePeriod ==
    /\ series = EmptyDict /\ cur = EmptyDict /\ prev = EmptyDict /\ cur_date = None
    /\ prev_date = None /\ current = EmptyDict /\ previous = EmptyDict
IdleParse == member = 0 /\ ctx = EmptyDict /\ facts = <<>>
IdleMetrics ==
    /\ config = EmptyDict /\ health = EmptyDict /\ profitability = EmptyDict
    /\ growth = EmptyDict /\ income_value = EmptyDict /\ price_metrics = EmptyDict

---------------------------------------------------------------------------
(* Specification of the pickers: one call on any result set *)

InitPick ==
    /\ pc = "pick_call"
    /\ ticker \in Tickers
    /\ sec_code_4 = Sec4Of(ticker)
    /\ results \in ResultSets
    /\ picked = NoneDoc
    /\ IdleScan /\ IdleDiv /\ IdlePeriod /\ IdleParse /\ IdleMetrics

CallPickDebug ==
    /\ pc = "pick_call"
    /\ picked' = edinet_pick_latest_doc_debug(results, sec_code_4)
    /\ pc' = "picked_debug"
    /\ UNCHANGED <<ticker, sec_code_4, results, scanVars, divVars, periodVars,
                   parseVars, metricVars>>

CallPick ==
    /\ pc = "pick_call"
    /\ picked' = edinet_pick_latest_doc(results, sec_code_4)
    /\ pc' = "picked_plain"
    /\ UNCHANGED <<ticker, sec_code_4, results, scanVars, divVars, periodVars,
                   parseVars, metricVars>>

NextPick == CallPickDebug \/ CallPick

SpecPick == InitPick /\ [][NextPick]_vars

---------------------------------------------------------------------------
(* Claims about the pickers (checked under SpecPick) *)

Returned == pc \in {"picked_debug", "picked_plain"}

\* The code filter of the picker that ran.
CodeMatch(r) ==
    IF pc = "picked_debug" THEN match_sec_debug(r, sec_code_4)
    ELSE match_sec(r, sec_code_4)

\* r matches a name of the alias-table entry of the searched code.
AliasMatch(r) ==
    /\ sec_code_4 \in DOMAIN company_names
    /\ \E j \in 1..Len(company_names[sec_code_4]) :
           NameMatch(r, company_names[sec_code_4][j])

\* The identifier filter: code match, title match, zero-padded variant, or (in the
\* picker that has the table) name alias.
IdMatch(r) == CodeMatch(r) \/ (pc = "picked_debug" /\ AliasMatch(r))

ResultDocs == {results[k] : k \in 1..Len(results)}

TiersWith(Test(_)) ==
    {t \in 1..Len(EDINET_FORMS) : \E r \in ResultDocs : InTier(r, t) /\ Test(r)}

TierOfDoc(r) == CHOOSE t \in 1..Len(EDINET_FORMS) : InTier(r, t)

\* The alias name that decides in the alias branch: the first name of the entry
\* with a match in some tier (0 if there is none).
DecidingName ==
    LET names == company_names[sec_code_4]
        good == {j \in 1..Len(names) :
                    \E r \in ResultDocs : NameMatch(r, names[j])
                                          /\ \E t \in 1..Len(EDINET_FORMS) : InTier(r, t)}
    IN  IF good = {} THEN 0 ELSE Min(good)

\* The picker took its alias branch: no document passes the code filter and the
\* searched code has an entry in the alias table.
AliasBranch ==
    /\ pc = "picked_debug"
    /\ sec_code_4 # <<>>
    /\ sec_code_4 \in DOMAIN company_names
    /\ \A r \in ResultDocs : ~CodeMatch(r)

\* The documents the returned one was selected among.
Candidate(r) ==
    IF AliasBranch
    THEN DecidingName # 0 /\ NameMatch(r, company_names[sec_code_4][DecidingName])
    ELSE CodeMatch(r)

\* The returned document belongs to the first tier holding a document that passes
\* Test, and with such a document in some tier a document is returned.
InFirstTierWith(Test(_)) ==
    LET T == TiersWith(Test)
    IN  /\ picked # NoneDoc => T # {}
        /\ T # {} => picked # NoneDoc /\ InTier(picked, Min(T))

\* C1 as stated: the returned document belongs to the first tier, in the order
\* annual > quarterly > semi-annual, that holds an identifier-matching document,
\* whether "identifier-matching" is read as the code filter alone or as the whole
\* identifier filter with the name aliases.
C1_FirstIdMatchTier ==
    Returned => (InFirstTierWith(CodeMatch) \/ InFirstTierWith(IdMatch))

\* C1 amended: the returned document belongs to the first tier that holds a document
\* passing the picker's code filter match_sec, and is such a document; only when no
\* document of the result set passes match_sec may edinet_pick_latest_doc_debug
\* return an alias match, and then from the first tier holding a match of the first
\* alias name that has a match in any tier.
C1_FirstCandidateTier ==
    Returned =>
        LET T == TiersWith(Candidate)
        IN  /\ picked # NoneDoc => T # {} /\ picked \in ResultDocs /\ Candidate(picked)
            /\ T # {} => picked # NoneDoc /\ InTier(picked, Min(T))

\* C1 witness: code matches in the annual and in the quarterly tier, the quarterly
\* one submitted later, and the annual one returned.
C1_Witness ==
    /\ pc = "picked_debug"
    /\ picked # NoneDoc /\ InTier(picked, 1) /\ CodeMatch(picked)
    /\ \E r \in ResultDocs :
           InTier(r, 2) /\ CodeMatch(r) /\ r.submitDateTime > picked.submitDateTime

\* C2 as stated: no candidate of the returned document's tier has a strictly
\* greater submission timestamp than the returned document (a document without
\* submission timestamp has none greater than any).
C2_GreatestSubmitTime ==
    (Returned /\ picked # NoneDoc) =>
        \A r \in ResultDocs :
            (Candidate(r) /\ InTier(r, TierOfDoc(picked)))
                => ~(r.submitDateTime > picked.submitDateTime)

\* C2 amended: the returned document has the greatest sort key among the candidates
\* of its tier, the key being the submission timestamp or, when that is absent, the
\* period end; of the candidates with that key it is the first of the result set.
C2_GreatestSortKey ==
    (Returned /\ picked # NoneDoc) =>
        LET InPickedTier(r) == Candidate(r) /\ InTier(r, TierOfDoc(picked))
            firstTop == Min({k \in 1..Len(results) :
                                /\ InPickedTier(results[k])
                                /\ \A r \in ResultDocs :
                                       InPickedTier(r) => SortKey(r) <= SortKey(results[k])})
        IN  /\ \A r \in ResultDocs : InPickedTier(r) => SortKey(r) <= SortKey(picked)
            /\ picked = results[firstTop]

\* C2 witness: two candidates of one tier, the first of the result set submitted
\* earlier, the later one returned.
C2_Witness ==
    /\ Returned /\ picked # NoneDoc /\ Len(results) = 2
    /\ picked = results[2]
    /\ Candidate(results[1]) /\ InTier(results[1], TierOfDoc(picked))
    /\ results[1].submitDateTime # 0 /\ picked.submitDateTime # 0
    /\ results[1].submitDateTime < picked.submitDateTime

\* The texts of document r refer to the company the ticker names: they hold the
\* ticker's code, or a name the alias table gives for it.
RefersTo(r, t) ==
    LET code == SplitDot0(t)
    IN  \/ Contains(code, r.secCode)
        \/ Contains(code, r.title)
        \/ Contains(code, r.docDescription)
        \/ /\ Sec4Of(t) \in DOMAIN company_names
           /\ \E j \in 1..Len(company_names[Sec4Of(t)]) :
                  NameMatch(r, company_names[Sec4Of(t)][j])

\* C7 as stated: for every ticker and result set, the document a picker returns
\* refers to the requested company; a document of an unrelated filer is never
\* returned.
C7_SelectedMatchesCompany ==
    (Returned /\ picked # NoneDoc) => RefersTo(picked, ticker)

\* C7: the case of a numeric ticker, where the claim holds.
C7_NumericTickerMatches ==
    (Returned /\ picked # NoneDoc /\ sec_code_4 # <<>>) => RefersTo(picked, ticker)

---------------------------------------------------------------------------
(* Specification of _safe_div: one call on any pair of optional numbers *)

\* Largest magnitude of a number handed to _safe_div.
MaxNum == 3

OptNums == {None} \cup {Some(v) : v \in (-MaxNum)..MaxNum}

InitDiv ==
    /\ pc = "div_call"
    /\ a \in OptNums /\ b \in OptNums /\ q = None
    /\ ticker = <<>> /\ sec_code_4 = <<>>
    /\ IdlePick /\ IdleScan /\ IdlePeriod /\ IdleParse /\ IdleMetrics

CallSafeDiv ==
    /\ pc = "div_call"
    /\ q' = safe_div(a, b)
    /\ pc' = "div_done"
    /\ UNCHANGED <<a, b, ticker, sec_code_4, pickVars, scanVars, periodVars, parseVars,
                   metricVars>>

NextDiv == CallSafeDiv

SpecDiv == InitDiv /\ [][NextDiv]_vars

\* C8: _safe_div(a, b) returns null exactly when a is null, b is null or b = 0;
\* otherwise it returns the fraction equal to a/b (so 0 for a = 0, and the signed
\* quotient for negative operands).
C8_SafeDivNullIffAndExact ==
    pc = "div_done" =>
        /\ q = None <=> (a = None \/ b = None \/ b = Some(0))
        /\ q # None =>
               /\ Val(q)[2] > 0
               /\ Val(q)[1] * Val(b) = Val(a) * Val(q)[2]
               /\ Gcd(Abs(Val(q)[1]), Val(q)[2]) = 1

\* C8 witness: a zero numerator over a negative denominator gives 0, not null.
C8_Witness ==
    /\ pc = "div_done" /\ a = Some(0) /\ b # None /\ b # Some(0) /\ Val(b) < 0
    /\ q = Some(<<0, 1>>)

---------------------------------------------------------------------------
(* Specification of pick_current_previous and of the payloads built from it *)

\* Observation dates are 1..MaxDate, in calendar order.
MaxDate == 3

\* Values a fact may carry.
FactValues == {-2, 3}

\* The concepts that have observations in the modelled series.
ObservedKeys == {"ocf", "capex"}

PartialMaps == UNION {[D -> FactValues] : D \in SUBSET (1..MaxDate)}

\* The series parse_xbrl_series can return: every configured concept is a key, the
\* observed ones hold any observations, and the synthesized concepts are added.
SeriesInputs ==
    {Synthesize([k \in ConceptKeys |-> IF k \in ObservedKeys THEN obs[k] ELSE EmptyDict]) :
        obs \in [ObservedKeys -> PartialMaps]}

InitPeriod ==
    /\ pc = "period_call"
    /\ series \in SeriesInputs
    /\ cur = EmptyDict /\ prev = EmptyDict /\ cur_date = None /\ prev_date = None
    /\ current = EmptyDict /\ previous = EmptyDict
    /\ ticker = <<>> /\ sec_code_4 = <<>>
    /\ IdlePick /\ IdleScan /\ IdleDiv /\ IdleParse /\ IdleMetrics

\* cur, prev, cur_date, prev_date = pick_current_previous(series)
CallPickCurrentPrevious ==
    /\ pc = "period_call"
    /\ LET r == pick_current_previous(series)
       IN  /\ cur' = r.cur /\ prev' = r.prev
           /\ cur_date' = r.latest /\ prev_date' = r.older
    /\ pc' = "period_done"
    /\ UNCHANGED <<series, current, previous, ticker, sec_code_4, pickVars, scanVars,
                   divVars, parseVars, metricVars>>

\* current = build_payload(cur); previous = build_payload(prev) if prev else {}
BuildPayloads ==
    /\ pc = "period_done"
    /\ current' = build_payload(cur)
    /\ previous' = previous_payload(prev)
    /\ pc' = "payload_done"
    /\ UNCHANGED <<series, cur, prev, cur_date, prev_date, ticker, sec_code_4, pickVars,
                   scanVars, divVars, parseVars, metricVars>>

NextPeriod == CallPickCurrentPrevious \/ BuildPayloads

SpecPeriod == InitPeriod /\ [][NextPeriod]_vars

Picked == pc \in {"period_done", "payload_done"}

\* Snapshot s holds every key of the series, with the value observed at date d and
\* null where the concept has none.
SnapshotAt(s, d) ==
    /\ DOMAIN s = DOMAIN series
    /\ \A k \in DOMAIN s :
           s[k] = IF d \in DOMAIN series[k] THEN Some(series[k][d]) ELSE None

\* C9 as stated: for every input series with an observation date, a single one
\* included, the current and the previous snapshot of pick_current_previous both
\* contain every configured concept key, and the payloads handed to the Metrics
\* Engine both have the fixed key set.
C9_BothSnapshotsComplete ==
    SeriesDates(series) # {} =>
        /\ Picked => (ConceptKeys \subseteq DOMAIN cur /\ ConceptKeys \subseteq DOMAIN prev)
        /\ pc = "payload_done" =>
               (DOMAIN current = PayloadKeys /\ DOMAIN previous = PayloadKeys)

\* C9 amended: a snapshot built for an existing date (the current one when the union
\* of dates is not empty, the previous one when a previous date exists) contains
\* every configured concept key, null where the concept has no value at that date;
\* without such a date the snapshot is the empty mapping.  The current payload has
\* the fixed key set of build_payload; the previous payload has it when a previous
\* date exists and is the empty mapping otherwise.
C9_SnapshotCompleteWhenDated ==
    /\ Picked =>
           /\ ConceptKeys \subseteq DOMAIN series
           /\ IF cur_date # None THEN SnapshotAt(cur, Val(cur_date)) ELSE cur = EmptyDict
           /\ IF prev_date # None THEN SnapshotAt(prev, Val(prev_date))
              ELSE prev = EmptyDict
    /\ pc = "payload_done" =>
           /\ DOMAIN current = PayloadKeys
           /\ \A k \in PayloadKeys \ {"price", "tax", "wacc"} :
                  current[k] = IF k \in DOMAIN cur THEN cur[k] ELSE None
           /\ IF prev_date # None
              THEN /\ DOMAIN previous = PayloadKeys
                   /\ \A k \in PayloadKeys \ {"price", "tax", "wacc"} :
                          previous[k] = IF k \in DOMAIN prev THEN prev[k] ELSE None
              ELSE previous = EmptyDict

\* C9 witness: two observation dates, and a concept observed at the current date
\* only: it is a null entry of the previous snapshot and of the previous payload.
C9_Witness ==
    /\ pc = "payload_done" /\ prev_date # None
    /\ cur["ocf"] # None /\ prev["ocf"] = None /\ previous["ocf"] = None
    /\ prev["capex"] # None

\* C10: the current date is the greatest date of the union of the series' dates; the
\* previous date is the greatest date of the union below it, none exactly when the
\* union has one date, and no date of the union lies between the two; for an empty
\* union the result is the empty snapshot pair with no dates.
C10_CurrentPreviousDates ==
    Picked =>
        LET U == SeriesDates(series)
        IN  IF U = {}
            THEN cur = EmptyDict /\ prev = EmptyDict /\ cur_date = None /\ prev_date = None
            ELSE /\ cur_date # None /\ Val(cur_date) \in U
                 /\ \A d \in U : d <= Val(cur_date)
                 /\ prev_date = None <=> Cardinality(U) = 1
                 /\ prev_date # None =>
                        /\ Val(prev_date) \in U /\ Val(prev_date) < Val(cur_date)
                        /\ ~\E d \in U : Val(prev_date) < d /\ d < Val(cur_date)

\* C10 witness: three dates in the union, the two latest chosen.
C10_Witness ==
    /\ Picked /\ Cardinality(SeriesDates(series)) = 3
    /\ cur_date = Some(3) /\ prev_date = Some(2)

---------------------------------------------------------------------------
(* Specification of the day scan *)

\* At most this many days of one scan have a failing index query or a non-empty
\* result set without a document for the picker; the other days are empty.
MaxEventfulDays == 2

\* The result sets the index returns for a day.
DayResults ==
    { <<>>,
      <<MkDoc("other", 4, <<1, 0>>)>>,
      <<MkDoc("other", 1, <<1, 0>>)>>,
      <<MkDoc("code", 4, <<1, 0>>), MkDoc("alias1", 2, <<1, 0>>)>>,
      <<MkDoc("alias2", 3, <<0, 3>>)>>,
      <<MkDoc("code", 2, <<2, 1>>)>>,
      <<MkDoc("code", 2, <<2, 1>>), MkDoc("code", 1, <<1, 0>>)>> }

\* The series of the archive the content fetch returns.
ArchiveSeries ==
    {sr \in SeriesInputs :
        /\ DOMAIN sr["capex"] = {}
        /\ \A d \in DOMAIN sr["ocf"] : d < MaxDate /\ sr["ocf"][d] = 3}

Eventful(e) == ~e.ok \/ (e.results # <<>> /\ e.doc = NoneDoc)
EventfulDays == Cardinality({k \in 1..Len(dayLog) : Eventful(dayLog[k])})

InitScan ==
    /\ pc = "scan"
    /\ ticker \in Tickers
    /\ sec_code_4 = Sec4Of(ticker)
    /\ i = 0 /\ test_results = <<>> /\ dayLog = <<>>
    /\ chosen = NoneDoc /\ err = NoError /\ nQueries = 0 /\ nFetches = 0
    /\ results = <<>> /\ picked = NoneDoc
    /\ IdleDiv /\ IdlePeriod /\ IdleParse /\ IdleMetrics

\* Mutant of QueryFails: no try/except around the query, the exception reaches the
\* caller.
QueryFailsRaises ==
    /\ pc = "scan"
    /\ EventfulDays < MaxEventfulDays
    /\ nQueries' = nQueries + 1
    /\ dayLog' = Append(dayLog, [date |-> DateOf(i), ok |-> FALSE, results |-> <<>>,
                                 doc |-> NoneDoc])
    /\ i' = i
    /\ pc' = "raised"
    /\ err' = IndexError
    /\ UNCHANGED <<ticker, sec_code_4, results, picked, test_results, chosen, nFetches,
                   divVars, periodVars, parseVars, metricVars>>

\* One iteration of the loop whose index query fails (edinet_list_documents raises):
\* `except Exception: continue`, and the code after the loop when it was the last.
QueryFails ==
    /\ pc = "scan"
    /\ EventfulDays < MaxEventfulDays
    /\ nQueries' = nQueries + 1
    /\ dayLog' = Append(dayLog, [date |-> DateOf(i), ok |-> FALSE, results |-> <<>>,
                                 doc |-> NoneDoc])
    /\ pc' = AfterDay(i, chosen)
    /\ i' = IF pc' = "scan" THEN i + 1 ELSE i
    /\ err' = IF pc' = "raised" THEN NotFoundError(sec_code_4, test_results) ELSE err
    /\ UNCHANGED <<ticker, sec_code_4, results, picked, test_results, chosen, nFetches,
                   divVars, periodVars, parseVars, metricVars>>

\* Mutant of QueryReturns: the count is recorded after the picker, so the break on a
\* match leaves the day of the match out of the list.
QueryReturnsCountsAfterPick ==
    /\ pc = "scan"
    /\ \E rs \in DayResults :
        LET doc == edinet_pick_latest_doc_debug(rs, sec_code_4)
        IN  /\ (rs # <<>> /\ doc = NoneDoc) => EventfulDays < MaxEventfulDays
            /\ nQueries' = nQueries + 1
            /\ results' = rs
            /\ picked' = doc
            /\ test_results' = IF doc = NoneDoc
                               THEN Append(test_results, <<DateOf(i), Len(rs)>>)
                               ELSE test_results
            /\ dayLog' = Append(dayLog, [date |-> DateOf(i), ok |-> TRUE,
                                         results |-> rs, doc |-> doc])
            /\ chosen' = IF doc # NoneDoc THEN doc ELSE chosen
            /\ pc' = AfterDay(i, chosen')
            /\ i' = IF pc' = "scan" THEN i + 1 ELSE i
            /\ err' = IF pc' = "raised" THEN NotFoundError(sec_code_4, test_results')
                      ELSE err
    /\ UNCHANGED <<ticker, sec_code_4, nFetches, divVars, periodVars, parseVars, metricVars>>

\* One iteration of the loop whose index query returns rs: the count is recorded,
\* the picker runs, a document ends the loop; and the code after the loop when the
\* loop ends here.
QueryReturns ==
    /\ pc = "scan"
    /\ \E rs \in DayResults :
        LET doc == edinet_pick_latest_doc_debug(rs, sec_code_4)
        IN  /\ (rs # <<>> /\ doc = NoneDoc) => EventfulDays < MaxEventfulDays
            /\ nQueries' = nQueries + 1
            /\ results' = rs
            /\ picked' = doc
            /\ test_results' = Append(test_results, <<DateOf(i), Len(rs)>>)
            /\ dayLog' = Append(dayLog, [date |-> DateOf(i), ok |-> TRUE,
                                         results |-> rs, doc |-> doc])
            /\ chosen' = IF doc # NoneDoc THEN doc ELSE chosen
            /\ pc' = AfterDay(i, chosen')
            /\ i' = IF pc' = "scan" THEN i + 1 ELSE i
            /\ err' = IF pc' = "raised" THEN NotFoundError(sec_code_4, test_results')
                      ELSE err
    /\ UNCHANGED <<ticker, sec_code_4, nFetches, divVars, periodVars, parseVars, metricVars>>

\* zipb = edinet_download_zip(chosen["docID"], api_key) raises: the exception reaches
\* the caller.
FetchFails ==
    /\ pc = "fetch"
    /\ nFetches' = nFetches + 1
    /\ err' = FetchError
    /\ pc' = "raised"
    /\ UNCHANGED <<ticker, sec_code_4, results, picked, i, test_results, dayLog, chosen,
                   nQueries, divVars, periodVars, parseVars, metricVars>>

\* The content fetch returns the archive; its series is parsed, the two periods are
\* picked, the payloads are built and returned.
FetchReturns ==
    /\ pc = "fetch"
    /\ nFetches' = nFetches + 1
    /\ \E sr \in ArchiveSeries :
        LET r == pick_current_previous(sr)
        IN  /\ series' = sr
            /\ cur' = r.cur /\ prev' = r.prev
            /\ cur_date' = r.latest /\ prev_date' = r.older
            /\ current' = build_payload(r.cur)
            /\ previous' = previous_payload(r.prev)
    /\ pc' = "returned"
    /\ UNCHANGED <<ticker, sec_code_4, results, picked, i, test_results, dayLog, chosen,
                   err, nQueries, divVars, parseVars, metricVars>>

NextScan == QueryFails \/ QueryReturns \/ FetchFails \/ FetchReturns

SpecScan == InitScan /\ [][NextScan]_vars

---------------------------------------------------------------------------
(* Claims about the day scan (checked under SpecScan) *)

DocsOf(rs) == {rs[k] : k \in 1..Len(rs)}
Tiered(r) == \E t \in 1..Len(EDINET_FORMS) : InTier(r, t)
ScanCodeMatch(r) == match_sec_debug(r, sec_code_4)
ScanIdMatch(r) == ScanCodeMatch(r) \/ AliasMatch(r)

\* Days of the log, most recent first, whose query succeeded and whose result set
\* satisfies Test.
OkDaysWith(Test(_)) == {k \in 1..Len(dayLog) : dayLog[k].ok /\ Test(dayLog[k].results)}

\* The chosen document comes from the most recent successfully queried day whose
\* result set satisfies Test.
ChosenFromMostRecent(Test(_)) ==
    /\ OkDaysWith(Test) # {}
    /\ Min(OkDaysWith(Test)) = Len(dayLog)
    /\ chosen \in DocsOf(dayLog[Len(dayLog)].results)

\* The result set has a document in one of the three tiers that passes the code
\* filter, or that passes the whole identifier filter.
HasCodeMatchInTier(rs) == \E r \in DocsOf(rs) : Tiered(r) /\ ScanCodeMatch(r)
HasIdMatchInTier(rs) == \E r \in DocsOf(rs) : Tiered(r) /\ ScanIdMatch(r)

\* The result set gives the picker a document: a code match in a tier, or, when no
\* document of the set matches by code, an alias match in a tier.
Pickable(rs) ==
    \/ HasCodeMatchInTier(rs)
    \/ /\ \A r \in DocsOf(rs) : ~ScanCodeMatch(r)
       /\ \E r \in DocsOf(rs) : Tiered(r) /\ AliasMatch(r)

BackwardFromToday == \A k \in 1..Len(dayLog) : dayLog[k].date = Today - (k - 1)

\* C3: no index query is issued after the first day on which the picker returns a
\* document (that day is the last one queried, and the only one with a document);
\* one content fetch is issued after a match, and none without a match.
C3_ScanShortCircuits ==
    /\ nQueries = Len(dayLog)
    /\ chosen # NoneDoc =>
           /\ dayLog[Len(dayLog)].doc = chosen
           /\ \A k \in 1..(Len(dayLog) - 1) : dayLog[k].doc = NoneDoc
    /\ chosen = NoneDoc => nFetches = 0
    /\ pc \in {"scan", "fetch"} => nFetches = 0
    /\ err.kind = "notfound" => (chosen = NoneDoc /\ nFetches = 0)
    /\ (pc = "returned" \/ err.kind = "fetch") => (chosen # NoneDoc /\ nFetches = 1)

\* C3 witness: the document is found on the second day queried, eight days of the
\* loop are never queried, and the one content fetch has returned.
C3_Witness ==
    /\ pc = "returned" /\ nFetches = 1 /\ nQueries = 2
    /\ dayLog[1].ok /\ dayLog[1].results # <<>>

\* C4 as stated: days are scanned backward from today, and the chosen document
\* comes from the most recent successfully queried day that has an
\* identifier-matching document in one of the three tiers, whether
\* "identifier-matching" is read as the code filter or as the whole identifier
\* filter with the name aliases.
C4_MostRecentIdMatchDay ==
    chosen # NoneDoc =>
        /\ BackwardFromToday
        /\ (ChosenFromMostRecent(HasCodeMatchInTier) \/ ChosenFromMostRecent(HasIdMatchInTier))

\* C4 amended: days are scanned backward from today, and the chosen document comes
\* from the most recent successfully queried day that gives the picker a document:
\* a day with a code match in one of the three tiers or, if no document of that day
\* matches by code, with an alias match in one of the tiers.  A scan that ends
\* without a document had no such day.
C4_MostRecentPickableDay ==
    /\ BackwardFromToday
    /\ chosen # NoneDoc => (ChosenFromMostRecent(Pickable) /\ Tiered(chosen))
    /\ err.kind = "notfound" => OkDaysWith(Pickable) = {}

\* C4 witness: a quarterly report is chosen on the third day queried, after a day
\* whose non-empty result set gave no document.
C4_Witness ==
    /\ chosen # NoneDoc /\ InTier(chosen, 2) /\ Len(dayLog) = 3
    /\ dayLog[1].ok /\ dayLog[1].results # <<>> /\ dayLog[2].ok

\* C5 as stated: when every day of the scan returns zero results, the
\* document-not-found error carries the searched identifier and as many per-day zero
\* counts as the stated search window has days.
C5_NotFoundCountsWholeWindow ==
    (/\ err.kind = "notfound"
     /\ \A k \in 1..Len(dayLog) : dayLog[k].ok /\ dayLog[k].results = <<>>)
        => /\ err.code = sec_code_4
           /\ Len(err.counts) = err.days
           /\ \A k \in 1..Len(err.counts) : err.counts[k][2] = 0

\* C5: what the code does there: the error states the window of search_days days
\* and carries one zero count for each of the ScanDays days of the loop.
C5_NotFoundCountsLoopDays ==
    (/\ err.kind = "notfound"
     /\ \A k \in 1..Len(dayLog) : dayLog[k].ok /\ dayLog[k].results = <<>>)
        => /\ err.code = sec_code_4
           /\ err.days = search_days
           /\ Len(err.counts) = ScanDays
           /\ \A k \in 1..Len(err.counts) : err.counts[k] = <<Today - (k - 1), 0>>

\* C6: a failed index query is not fatal: nothing but the not-found error and the
\* content-fetch error reaches the caller; after a failed day the next older day is
\* queried; the not-found error is raised only when every day of the loop was tried
\* and none gave a document; a document on any day queried is chosen.
C6_IndexFailureNonFatal ==
    /\ err.kind \in {"none", "notfound", "fetch"}
    /\ pc = "raised" <=> err.kind # "none"
    /\ \A k \in 1..Len(dayLog) :
           (~dayLog[k].ok /\ k < ScanDays) => (Len(dayLog) > k \/ pc = "scan")
    /\ err.kind = "notfound" =>
           (Len(dayLog) = ScanDays /\ \A k \in 1..Len(dayLog) : dayLog[k].doc = NoneDoc)
    /\ (\E k \in 1..Len(dayLog) : dayLog[k].doc # NoneDoc) => chosen # NoneDoc

\* C6 witness: the query of the first day fails, the document of the second day is
\* chosen and the payloads are returned.
C6_Witness ==
    /\ pc = "returned" /\ Len(dayLog) = 2
    /\ ~dayLog[1].ok /\ dayLog[2].ok /\ chosen # NoneDoc /\ chosen = dayLog[2].doc

---------------------------------------------------------------------------
(* parse_xbrl_series: texts, contexts and facts *)

\* str.strip() for the blank character.
RECURSIVE Strip(_)
Strip(s) ==
    IF s = <<>> THEN s
    ELSE IF Head(s) = " " THEN Strip(Tail(s))
    ELSE IF s[Len(s)] = " " THEN Strip(SubSeq(s, 1, Len(s) - 1))
    ELSE s

DigitValue ==
    [c \in Digits |->
        CASE c = "0" -> 0 [] c = "1" -> 1 [] c = "2" -> 2 [] c = "3" -> 3 [] c = "4" -> 4
          [] c = "5" -> 5 [] c = "6" -> 6 [] c = "7" -> 7 [] c = "8" -> 8 [] c = "9" -> 9]

\* The number a text of digits denotes.
RECURSIVE NumberOf(_)
NumberOf(s) ==
    IF s = <<>> THEN 0 ELSE 10 * NumberOf(SubSeq(s, 1, Len(s) - 1)) + DigitValue[s[Len(s)]]

\* Mutant of ParseFloat: a text float() rejects is taken for 0.
ParseFloatOrZero(text) ==
    LET t == Strip(SelectSeq(text, LAMBDA c : c # ","))
        signed == t # <<>> /\ Head(t) \in {"-", "+"}
        digits == IF signed THEN Tail(t) ELSE t
    IN  IF ~IsDigit(digits) THEN Some(0)
        ELSE IF signed /\ Head(t) = "-" THEN Some(-NumberOf(digits))
        ELSE Some(NumberOf(digits))

\* float((fact.text or "").replace(",", "").strip()) for texts of whole numbers:
\* Some(value), or None where float() raises.
ParseFloat(text) ==
    LET t == Strip(SelectSeq(text, LAMBDA c : c # ","))
        signed == t # <<>> /\ Head(t) \in {"-", "+"}
        digits == IF signed THEN Tail(t) ELSE t
    IN  IF ~IsDigit(digits) THEN None
        ELSE IF signed /\ Head(t) = "-" THEN Some(-NumberOf(digits))
        ELSE Some(NumberOf(digits))

\* Days of month m of year y.
DaysIn(y, m) ==
    IF m = 2
    THEN (IF (y % 4 = 0 /\ y % 100 # 0) \/ y % 400 = 0 THEN 29 ELSE 28)
    ELSE IF m \in {4, 6, 9, 11} THEN 30 ELSE 31

\* dt.date.fromisoformat((child.text or "").strip()[:10]): Some(date), or None where
\* it raises.  A date is the number yyyymmdd, which orders dates as the calendar does.
ParseDate(text) ==
    LET t == Strip(text)
        s == SubSeq(t, 1, Min({10, Len(t)}))
    IN  IF ~(/\ Len(s) = 10 /\ s[5] = "-" /\ s[8] = "-"
             /\ IsDigit(SubSeq(s, 1, 4)) /\ IsDigit(SubSeq(s, 6, 7))
             /\ IsDigit(SubSeq(s, 9, 10)))
        THEN None
        ELSE LET y == NumberOf(SubSeq(s, 1, 4))
                 m == NumberOf(SubSeq(s, 6, 7))
                 d == NumberOf(SubSeq(s, 9, 10))
             IN  IF y >= 1 /\ m \in 1..12 /\ d \in 1..DaysIn(y, m)
                 THEN Some(y * 10000 + m * 100 + d)
                 ELSE None

\* _localname on a tag given as (namespace, local name).
localname(tag) == tag[2]

\* The end date of one context element: the last endDate or instant child whose text
\* parses (a child that does not parse leaves end_date as it was).
RECURSIVE EndDateOf(_)
EndDateOf(children) ==
    IF children = <<>> THEN None
    ELSE LET child == children[Len(children)]
             earlier == EndDateOf(SubSeq(children, 1, Len(children) - 1))
         IN  IF localname(child.tag) \in {"endDate", "instant"} /\ ParseDate(child.text) # None
             THEN ParseDate(child.text)
             ELSE earlier

\* _parse_contexts(root) on the elements of a document, in document order: a context
\* with an id and an end date enters the map, a later context of the same id
\* replaces it.
RECURSIVE parse_contexts(_)
parse_contexts(els) ==
    IF els = <<>> THEN EmptyDict
    ELSE LET el == els[Len(els)]
             before == parse_contexts(SubSeq(els, 1, Len(els) - 1))
         IN  IF localname(el.tag) # "context" \/ el.id = "" \/ EndDateOf(el.children) = None
             THEN before
             ELSE [c \in DOMAIN before \cup {el.id} |->
                      IF c = el.id THEN Val(EndDateOf(el.children)) ELSE before[c]]

\* XBRL_TAGS_LOCAL, in the order of the dict.
XBRL_TAGS_LOCAL ==
    << <<"sales", <<"Revenue", "NetSales">> >>,
       <<"cogs", <<"CostOfSales">> >>,
       <<"op", <<"OperatingProfitLoss", "OperatingIncome">> >>,
       <<"ord", <<"OrdinaryIncome">> >>,
       <<"net", <<"ProfitLoss">> >>,
       <<"assets", <<"Assets">> >>,
       <<"equity", <<"Equity", "NetAssets">> >>,
       <<"tl", <<"Liabilities">> >>,
       <<"ca", <<"CurrentAssets">> >>,
       <<"cl", <<"CurrentLiabilities">> >>,
       <<"inv", <<"Inventories">> >>,
       <<"ar", <<"TradeAndOtherReceivablesCurrent", "NotesAndAccountsReceivableTrade">> >>,
       <<"cash", <<"CashAndCashEquivalents", "CashAndDeposits">> >>,
       <<"stinv", <<"Securities", "OtherFinancialAssetsCurrent">> >>,
       <<"invest", <<"InvestmentsAndOtherAssets", "OtherFinancialAssetsNoncurrent">> >>,
       <<"ppe", <<"PropertyPlantAndEquipment">> >>,
       <<"intan", <<"IntangibleAssets">> >>,
       <<"debt_short", <<"ShortTermBorrowings", "BorrowingsCurrent">> >>,
       <<"debt_long", <<"LongTermBorrowings", "BorrowingsNoncurrent">> >>,
       <<"bonds", <<"Bonds", "BondsIssued">> >>,
       <<"ocf", <<"NetCashFlowsFromUsedInOperatingActivities",
                  "NetCashProvidedByUsedInOperatingActivities">> >>,
       <<"capex", <<"PurchaseOfPropertyPlantAndEquipmentClassifiedAsInvestingActivities",
                    "PurchaseOfPropertyPlantAndEquipment">> >>,
       <<"dep_amort", <<"DepreciationAndAmortisationExpense",
                        "DepreciationAndAmortization">> >>,
       <<"shares", <<"NumberOfIssuedShares">> >> >>

SeqSet(s) == {s[k] : k \in 1..Len(s)}

\* desired = {local for tags in XBRL_TAGS_LOCAL.values() for local in tags}
desired == UNION {SeqSet(XBRL_TAGS_LOCAL[k][2]) : k \in 1..Len(XBRL_TAGS_LOCAL)}

\* for key, tags in XBRL_TAGS_LOCAL.items(): if ln in tags: ...; break
\* the first key, in the order of the dict, whose list holds ln.
KeyOf(ln) ==
    XBRL_TAGS_LOCAL[Min({k \in 1..Len(XBRL_TAGS_LOCAL) : ln \in SeqSet(XBRL_TAGS_LOCAL[k][2])})][1]

\* series = {k: {} for k in XBRL_TAGS_LOCAL.keys()}
EmptySeries == [k \in {XBRL_TAGS_LOCAL[j][1] : j \in 1..Len(XBRL_TAGS_LOCAL)} |-> EmptyDict]

\* Mutant of Put: the value is added to the one already stored.
PutSum(dmap, d, v) ==
    [e \in DOMAIN dmap \cup {d} |->
        IF e # d THEN dmap[e] ELSE IF d \in DOMAIN dmap THEN dmap[d] + v ELSE v]

\* Mutant of Put: setdefault, a stored value is kept.
PutKeepFirst(dmap, d, v) ==
    [e \in DOMAIN dmap \cup {d} |-> IF e = d /\ d \notin DOMAIN dmap THEN v ELSE dmap[e]]

\* series[key][end_date] = val
Put(dmap, d, v) == [e \in DOMAIN dmap \cup {d} |-> IF e = d THEN v ELSE dmap[e]]

\* One iteration of `for fact in root.iter()`: the series after element el of a
\* document whose context map is cx.
RecordFact(sr, cx, el) ==
    LET ln == localname(el.tag)
        val == ParseFloat(el.text)
    IN  IF ln \notin desired THEN sr
        ELSE IF el.contextRef = "" \/ el.contextRef \notin DOMAIN cx THEN sr
        ELSE IF val = None THEN sr
        ELSE [sr EXCEPT ![KeyOf(ln)] = Put(@, cx[el.contextRef], Val(val))]

---------------------------------------------------------------------------
(* Specification of parse_xbrl_series: the members of one archive, element by
   element *)

\* Most members of xbrl_files, and most fact elements of an archive.
MaxMembers == 2
MaxFacts == 2

Date2024 == <<"2", "0", "2", "4", "-", "0", "3", "-", "3", "1">>
Date2023T == <<" ", "2", "0", "2", "3", "-", "0", "3", "-", "3", "1", "T", "0", "0">>
DateFeb30 == <<"2", "0", "2", "4", "-", "0", "2", "-", "3", "0">>

DateChild(ln, text) == [tag |-> <<"xbrli", ln>>, text |-> text]
ContextEl(id, children) == [tag |-> <<"xbrli", "context">>, id |-> id, children |-> children]

\* The context elements of the modelled documents.  In the first, c1 ends on
\* 2024-03-31 and c0 is the instant 2023-03-31; the date of `bad` does not parse and
\* one context has no id.  In the second, c1 is the instant 2023-03-31, followed by
\* an end date that does not parse.
ContextMenus ==
    { << ContextEl("c1", <<DateChild("startDate", Date2023T), DateChild("endDate", Date2024)>>),
         ContextEl("c0", <<DateChild("instant", Date2023T)>>),
         ContextEl("bad", <<DateChild("instant", DateFeb30)>>),
         ContextEl("", <<DateChild("instant", Date2024)>>) >>,
      << ContextEl("c1", <<DateChild("instant", Date2023T), DateChild("endDate", DateFeb30)>>) >> }

FactEl(ns, ln, ref, text) == [tag |-> <<ns, ln>>, contextRef |-> ref, text |-> text]

\* The elements a document is made of, besides its contexts.
FactMenu ==
    { FactEl("jpigp", "Revenue", "c1", <<"3">>),
      FactEl("jppfs", "NetSales", "c1", <<"5">>),
      FactEl("jpigp", "Revenue", "c0", <<" ", "1", ",", "2", "0", "0">>),
      FactEl("jppfs", "NetSales", "c1", <<"n", "/", "a">>),
      FactEl("jpigp", "Revenue", "", <<"7">>),
      FactEl("jpigp", "Revenue", "bad", <<"7">>),
      FactEl("jppfs", "Goodwill", "c1", <<"9">>),
      FactEl("jppfs", "CostOfSales", "c1", <<"-", "2">>) }

InitParse ==
    /\ pc = "xbrl_files"
    /\ member = 0 /\ ctx = EmptyDict /\ facts = <<>>
    /\ series = EmptySeries
    /\ cur = EmptyDict /\ prev = EmptyDict /\ cur_date = None /\ prev_date = None
    /\ current = EmptyDict /\ previous = EmptyDict
    /\ ticker = <<>> /\ sec_code_4 = <<>>
    /\ IdlePick /\ IdleScan /\ IdleDiv /\ IdleMetrics

\* The next member of xbrl_files does not parse: `except Exception: continue`.
MemberFails ==
    /\ pc \in {"xbrl_files", "facts"}
    /\ member < MaxMembers
    /\ member' = member + 1
    /\ ctx' = EmptyDict
    /\ pc' = "xbrl_files"
    /\ UNCHANGED <<facts, periodVars, ticker, sec_code_4, pickVars, scanVars, divVars,
                   metricVars>>

\* The next member of xbrl_files parses: ctx = _parse_contexts(root).
OpenMember ==
    /\ pc \in {"xbrl_files", "facts"}
    /\ member < MaxMembers
    /\ member' = member + 1
    /\ \E els \in ContextMenus : ctx' = parse_contexts(els)
    /\ pc' = "facts"
    /\ UNCHANGED <<facts, periodVars, ticker, sec_code_4, pickVars, scanVars, divVars,
                   metricVars>>

\* One iteration of `for fact in root.iter()` in the member that is open.
ScanFact ==
    /\ pc = "facts"
    /\ Len(facts) < MaxFacts
    /\ \E el \in FactMenu :
        /\ facts' = Append(facts, [member |-> member, el |-> el, ctx |-> ctx])
        /\ series' = RecordFact(series, ctx, el)
    /\ UNCHANGED <<pc, member, ctx, cur, prev, cur_date, prev_date, current, previous,
                   ticker, sec_code_4, pickVars, scanVars, divVars, metricVars>>

\* xbrl_files is exhausted: the loop over the members ends.
EndMembers ==
    /\ pc \in {"xbrl_files", "facts"}
    /\ pc' = "extracted"
    /\ UNCHANGED <<member, ctx, facts, periodVars, ticker, sec_code_4, pickVars, scanVars,
                   divVars, metricVars>>

\* The synthesis loop over the dates of the series, and `return series`.
SynthesizeSeries ==
    /\ pc = "extracted"
    /\ series' = Synthesize(series)
    /\ pc' = "parsed"
    /\ UNCHANGED <<member, ctx, facts, cur, prev, cur_date, prev_date, current, previous,
                   ticker, sec_code_4, pickVars, scanVars, divVars, metricVars>>

NextParse == MemberFails \/ OpenMember \/ ScanFact \/ EndMembers \/ SynthesizeSeries

SpecParse == InitParse /\ [][NextParse]_vars

---------------------------------------------------------------------------
(* Claims about the extraction of facts (checked under SpecParse) *)

\* Entry e of the history is an accepted fact: its local name is a configured tag,
\* its context reference resolves in the context map of its own member, and its text
\* is a number.
Accepted(e) ==
    /\ localname(e.el.tag) \in desired
    /\ e.el.contextRef # "" /\ e.el.contextRef \in DOMAIN e.ctx
    /\ ParseFloat(e.el.text) # None

FactKey(e) == KeyOf(localname(e.el.tag))
FactDate(e) == e.ctx[e.el.contextRef]
FactValue(e) == Val(ParseFloat(e.el.text))

\* The accepted facts of the history for concept k and date d, by position.
AcceptedFor(k, d) ==
    {j \in 1..Len(facts) : Accepted(facts[j]) /\ FactKey(facts[j]) = k /\ FactDate(facts[j]) = d}

\* Every date a context of the history resolves to, and every date of the series.
KnownDates ==
    SeriesDates(series) \cup UNION {{facts[j].ctx[c] : c \in DOMAIN facts[j].ctx} : j \in 1..Len(facts)}

\* C13: at every point of the extraction and after it, the value stored for a
\* configured concept and a date is the value of the last accepted fact for that pair,
\* in archive order of the members and document order of the elements; a pair no
\* accepted fact names has no entry.
C13_LastWriteWins ==
    \A k \in ConceptKeys : \A d \in KnownDates :
        IF AcceptedFor(k, d) = {} THEN d \notin DOMAIN series[k]
        ELSE /\ d \in DOMAIN series[k]
             /\ series[k][d] = FactValue(facts[Max(AcceptedFor(k, d))])

\* C13 witness: two members each hold an accepted fact for sales at 2024-03-31, with
\* different values, and the value of the second member is the one stored.
C13_Witness ==
    /\ pc = "parsed" /\ Len(facts) = 2
    /\ facts[1].member = 1 /\ facts[2].member = 2
    /\ AcceptedFor("sales", 20240331) = {1, 2}
    /\ FactValue(facts[1]) # FactValue(facts[2])
    /\ series["sales"][20240331] = FactValue(facts[2])

\* Position of the tag of entry e in the synonym list of its concept.
TagRank(e) ==
    LET tags == XBRL_TAGS_LOCAL[CHOOSE k \in 1..Len(XBRL_TAGS_LOCAL) :
                                    XBRL_TAGS_LOCAL[k][1] = FactKey(e)][2]
    IN  CHOOSE r \in 1..Len(tags) : tags[r] = localname(e.el.tag)

\* Entries j1 and j2 are accepted facts of one member, for one concept and one date,
\* under two different synonym tags, and no later member has a fact for that pair.
SynonymPair(j1, j2) ==
    /\ j1 # j2
    /\ Accepted(facts[j1]) /\ Accepted(facts[j2])
    /\ facts[j1].member = facts[j2].member
    /\ FactKey(facts[j1]) = FactKey(facts[j2])
    /\ FactDate(facts[j1]) = FactDate(facts[j2])
    /\ localname(facts[j1].el.tag) # localname(facts[j2].el.tag)
    /\ \A j \in AcceptedFor(FactKey(facts[j1]), FactDate(facts[j1])) :
           facts[j].member <= facts[j1].member

\* C14 as stated: when facts under two different synonym tags of one concept occur
\* in the same document and resolve to the same date, the value recorded for the
\* concept and date is a value given under the tag listed first in the concept's
\* synonym list, whatever the order of the facts in the document.
C14_FirstListedSynonymWins ==
    \A j1, j2 \in 1..Len(facts) :
        (SynonymPair(j1, j2) /\ TagRank(facts[j1]) < TagRank(facts[j2])) =>
            \E j \in AcceptedFor(FactKey(facts[j1]), FactDate(facts[j1])) :
                /\ facts[j].member = facts[j1].member
                /\ TagRank(facts[j]) = TagRank(facts[j1])
                /\ series[FactKey(facts[j1])][FactDate(facts[j1])] = FactValue(facts[j])

\* C14 amended: the synonyms of a concept have no priority among them: of the facts
\* of a document that resolve to the same concept and date under different synonym
\* tags, the one that comes last in document order gives the recorded value, whether
\* its tag is listed first or not.
C14_LastSynonymFactWins ==
    \A j1, j2 \in 1..Len(facts) :
        (/\ SynonymPair(j1, j2) /\ j1 < j2
         /\ \A j \in AcceptedFor(FactKey(facts[j1]), FactDate(facts[j1])) : j <= j2) =>
            series[FactKey(facts[j1])][FactDate(facts[j1])] = FactValue(facts[j2])

\* C14 witness: Revenue, listed first for sales, is followed in the same document by
\* NetSales for the same date, and the NetSales value is the one recorded.
C14_Witness ==
    /\ Len(facts) = 2 /\ SynonymPair(1, 2)
    /\ localname(facts[1].el.tag) = "Revenue" /\ localname(facts[2].el.tag) = "NetSales"
    /\ FactValue(facts[1]) # FactValue(facts[2])
    /\ series["sales"][FactDate(facts[1])] = FactValue(facts[2])

\* The text is a whole number once the thousands separators and the blanks around it
\* are taken away.
NumericText(text) ==
    LET t == Strip(SelectSeq(text, LAMBDA c : c # ","))
    IN  /\ t # <<>>
        /\ \/ IsDigit(t)
           \/ (Head(t) \in {"-", "+"} /\ IsDigit(Tail(t)))

\* Entry e is a fact the extraction has to skip: its context reference is absent or
\* is not in the context map of its own document, or its text is not numeric.
SkippedFact(e) ==
    \/ e.el.contextRef = ""
    \/ e.el.contextRef \notin DOMAIN e.ctx
    \/ ~NumericText(e.el.text)

\* C15: scanning a fact whose context reference is absent or does not resolve to a
\* date in the context map of its own document (a context dropped for a malformed
\* date included), or whose text is not numeric, changes no entry of any concept
\* series, and the scan of the document goes on.
C15_SkippedFactsChangeNothing ==
    [][(Len(facts') = Len(facts) + 1 /\ SkippedFact(facts'[Len(facts')]))
          => (series' = series /\ pc' = "facts")]_vars

\* C15 witness: a fact whose context was dropped for its malformed date is followed
\* by an accepted fact, and the series holds the entry of the second fact only.
C15_Witness ==
    /\ Len(facts) = 2
    /\ facts[1].el.contextRef = "bad" /\ localname(facts[1].el.tag) \in desired
    /\ NumericText(facts[1].el.text)
    /\ Accepted(facts[2])
    /\ \A k \in ConceptKeys :
           series[k] = IF k = FactKey(facts[2])
                       THEN [d \in {FactDate(facts[2])} |-> FactValue(facts[2])]
                       ELSE EmptyDict

---------------------------------------------------------------------------
(* Specification of the synthesis loop of parse_xbrl_series: any extracted series *)

\* Dates of the extracted series are 1..MaxSynthDate, in calendar order.
MaxSynthDate == 2

MapsOver(D, V) == UNION {[S -> V] : S \in SUBSET D}

\* Series the loop over the members can leave: borrowings that are absent, zero,
\* cancel each other or sum to something; or cash-flow and profit inputs of either
\* sign, each observed at any dates.
ExtractedSeries ==
    LET D == 1..MaxSynthDate
        With(obs) == [k \in DOMAIN EmptySeries |-> IF k \in DOMAIN obs THEN obs[k] ELSE EmptyDict]
    IN  {With(obs) : obs \in [debt_short : MapsOver(D, {-3, 0, 3}),
                              debt_long : MapsOver(D, {-3, 0}),
                              bonds : MapsOver(D, {3})]}
        \cup {With(obs) : obs \in [ocf : MapsOver(D, {3}), capex : MapsOver(D, {-2, 3}),
                                   op : MapsOver(D, {-2, 3}), dep_amort : MapsOver(D, {-2})]}

InitSynth ==
    /\ pc = "extracted"
    /\ series \in ExtractedSeries
    /\ cur = EmptyDict /\ prev = EmptyDict /\ cur_date = None /\ prev_date = None
    /\ current = EmptyDict /\ previous = EmptyDict
    /\ ticker = <<>> /\ sec_code_4 = <<>>
    /\ IdlePick /\ IdleScan /\ IdleDiv /\ IdleParse /\ IdleMetrics

NextSynth == SynthesizeSeries

SpecSynth == InitSynth /\ [][NextSynth]_vars

\* The date has an entry in the series of concept k.
Has(k, d) == k \in DOMAIN series /\ d \in DOMAIN series[k]

\* short-term borrowings + long-term borrowings + bonds at d, a missing one counted 0.
Borrowings(d) ==
    (IF Has("debt_short", d) THEN series["debt_short"][d] ELSE 0)
    + (IF Has("debt_long", d) THEN series["debt_long"][d] ELSE 0)
    + (IF Has("bonds", d) THEN series["bonds"][d] ELSE 0)

\* C11: after the synthesis, for every date of the union of the series' dates, debt
\* has an entry at that date exactly when the borrowings sum is non-zero, and the
\* entry is that sum; when the components are all 0, cancel out or are all absent,
\* debt has no entry at that date (and no debt series exists if that is so at every
\* date); a 0 is never stored.
C11_DebtZeroGuard ==
    pc = "parsed" =>
        /\ \A d \in SeriesDates(series) :
               /\ Has("debt", d) <=> Borrowings(d) # 0
               /\ Has("debt", d) => series["debt"][d] = Borrowings(d) /\ series["debt"][d] # 0
        /\ "debt" \in DOMAIN series => series["debt"] # EmptyDict

\* C11 witness: at date 1 the borrowings cancel out (3 and -3) and debt has no entry,
\* at date 2 they are 3 and debt is 3.
C11_Witness ==
    /\ pc = "parsed"
    /\ Has("debt_short", 1) /\ Has("debt_long", 1) /\ ~Has("bonds", 1)
    /\ series["debt_short"][1] = 3 /\ series["debt_long"][1] = -3 /\ ~Has("debt", 1)
    /\ Has("debt", 2) /\ series["debt"][2] = 3

\* C12: after the synthesis, fcf has an entry at d exactly when ocf and capex both
\* have one at d, and it is ocf[d] - |capex[d]|; ebitda has an entry at d exactly when
\* op and dep_amort both have one at d, and it is op[d] + |dep_amort[d]|; values
\* observed at different dates never combine.
C12_FcfEbitdaSameDate ==
    pc = "parsed" =>
        \A d \in SeriesDates(series) :
            /\ Has("fcf", d) <=> (Has("ocf", d) /\ Has("capex", d))
            /\ Has("fcf", d) =>
                   series["fcf"][d] = series["ocf"][d] - (IF series["capex"][d] < 0
                                                          THEN -series["capex"][d]
                                                          ELSE series["capex"][d])
            /\ Has("ebitda", d) <=> (Has("op", d) /\ Has("dep_amort", d))
            /\ Has("ebitda", d) =>
                   series["ebitda"][d] = series["op"][d] + (IF series["dep_amort"][d] < 0
                                                            THEN -series["dep_amort"][d]
                                                            ELSE series["dep_amort"][d])

\* C12 witness: ocf is observed at date 1 only and capex at date 2 only, so there is
\* no fcf, while op and a negative dep_amort at date 2 give ebitda = op + |dep_amort|.
C12_Witness ==
    /\ pc = "parsed"
    /\ Has("ocf", 1) /\ ~Has("ocf", 2) /\ Has("capex", 2) /\ ~Has("capex", 1)
    /\ "fcf" \notin DOMAIN series
    /\ Has("op", 2) /\ Has("dep_amort", 2) /\ series["dep_amort"][2] = -2
    /\ series["ebitda"][2] = series["op"][2] + 2

---------------------------------------------------------------------------
(* Numbers of the metrics: fractions <<numerator, denominator>> in lowest terms with
   a positive denominator, the exact values of the floats the code computes *)

Rat(n) == <<n, 1>>

\* x * y, reduced crosswise before multiplying.
RMul(x, y) ==
    LET g1 == Gcd(Abs(x[1]), y[2])
        g2 == Gcd(Abs(y[1]), x[2])
    IN  <<(x[1] \div g1) * (y[1] \div g2), (x[2] \div g2) * (y[2] \div g1)>>

\* x / y for y # 0.
RDiv(x, y) == RMul(x, IF y[1] < 0 THEN <<-y[2], -y[1]>> ELSE <<y[2], y[1]>>)

\* x + y over the least common denominator.
RAdd(x, y) ==
    LET g == Gcd(x[2], y[2])
    IN  Quotient(x[1] * (y[2] \div g) + y[1] * (x[2] \div g), (x[2] \div g) * y[2])

RSub(x, y) == RAdd(x, <<-y[1], y[2]>>)

RLe(x, y) == x[1] * y[2] <= y[1] * x[2]

\* x ** n for n >= 0.
RECURSIVE RPow(_, _)
RPow(x, n) == IF n = 0 THEN Rat(1) ELSE RMul(x, RPow(x, n - 1))

\* An optional whole number of a payload as an optional fraction.
Num(x) == IF x = None THEN None ELSE Some(Rat(Val(x)))

\* A rate a payload holds in percent (tax, wacc) as an optional fraction.
Rate(x) == IF x = None THEN None ELSE Some(Quotient(Val(x), 100))

\* Python `x or default` on an optional number: None and 0 are falsy.
OrElse(x, default) == IF x = None \/ Val(x)[1] = 0 THEN default ELSE Val(x)

\* Python truth value of an optional number.
Truthy(x) == x # None /\ Val(x)[1] # 0

\* Mutant of safe_div_q: a zero denominator gives 0 instead of None.
safe_div_q_zero(x, y) ==
    IF x = None \/ y = None THEN None
    ELSE IF Val(y)[1] = 0 THEN Some(Rat(0))
    ELSE Some(RDiv(Val(x), Val(y)))

\* _safe_div(a, b) on optional fractions.
safe_div_q(x, y) ==
    IF x = None \/ y = None \/ Val(y)[1] = 0 THEN None
    ELSE Some(RDiv(Val(x), Val(y)))

\* Rounding to the nearest whole number, a tie to the even one.
RoundHalfEven(x) ==
    LET fl == x[1] \div x[2]
        r == x[1] % x[2]
    IN  IF 2 * r < x[2] THEN fl
        ELSE IF 2 * r > x[2] THEN fl + 1
        ELSE IF fl % 2 = 0 THEN fl ELSE fl + 1

\* fmt_pct(x): the percentage f"{x*100:.1f}%" as its number of tenths of a percent
\* (900 stands for "90.0%"), None for None.
fmt_pct(x) == IF x = None THEN None ELSE Some(RoundHalfEven(RMul(Val(x), Rat(1000))))

\* f"{val:.1f}" as the number of tenths.
fmt_1f(x) == IF x = None THEN None ELSE Some(RoundHalfEven(RMul(Val(x), Rat(10))))

---------------------------------------------------------------------------
(* calc_health *)

HEALTH_THRESHOLDS ==
    [equity_ratio_min |-> <<4, 5>>, debt_to_equity_max |-> <<2, 1>>,
     current_ratio_min |-> <<1, 1>>, quick_ratio_min |-> <<1, 1>>,
     fixed_ratio_max |-> <<1, 1>>]

\* The 1e9 that stands in for a missing ratio of a "<=" row.
Missing_max == <<1000000000, 1>>

\* "OK" if (x or 0) >= minimum else "NG"
JudgeMin(x, minimum) == IF RLe(minimum, OrElse(x, Rat(0))) THEN "OK" ELSE "NG"

\* "OK" if (x or 1e9) <= maximum else "NG"
JudgeMax(x, maximum) == IF RLe(OrElse(x, Missing_max), maximum) THEN "OK" ELSE "NG"

HealthRow(x, verdict) == [value |-> x, pct |-> fmt_pct(x), verdict |-> verdict]

\* calc_health(current): the five rows, each with the ratio, its formatted
\* percentage and the verdict.
calc_health(c) ==
    LET equity_ratio == safe_div_q(Num(GetOpt(c, "equity")), Num(GetOpt(c, "assets")))
        tl_or_none == IF Truthy(Num(GetOpt(c, "tl"))) THEN Num(GetOpt(c, "tl")) ELSE None
        debt_to_equity == safe_div_q(tl_or_none, Num(GetOpt(c, "equity")))
        current_ratio == safe_div_q(Num(GetOpt(c, "ca")), Num(GetOpt(c, "cl")))
        quick_assets == RSub(OrElse(Num(GetOpt(c, "ca")), Rat(0)),
                             OrElse(Num(GetOpt(c, "inv")), Rat(0)))
        quick_ratio == safe_div_q(Some(quick_assets), Num(GetOpt(c, "cl")))
        fixed_assets == RAdd(RAdd(OrElse(Num(GetOpt(c, "ppe")), Rat(0)),
                                  OrElse(Num(GetOpt(c, "intan")), Rat(0))),
                             OrElse(Num(GetOpt(c, "invest")), Rat(0)))
        fixed_ratio == safe_div_q(Some(fixed_assets), Num(GetOpt(c, "equity")))
    IN  [equity_ratio |-> HealthRow(equity_ratio,
                             JudgeMin(equity_ratio, HEALTH_THRESHOLDS.equity_ratio_min)),
         debt_to_equity |-> HealthRow(debt_to_equity,
                               JudgeMax(debt_to_equity, HEALTH_THRESHOLDS.debt_to_equity_max)),
         current_ratio |-> HealthRow(current_ratio,
                              JudgeMin(current_ratio, HEALTH_THRESHOLDS.current_ratio_min)),
         quick_ratio |-> HealthRow(quick_ratio,
                            JudgeMin(quick_ratio, HEALTH_THRESHOLDS.quick_ratio_min)),
         fixed_ratio |-> HealthRow(fixed_ratio,
                            JudgeMax(fixed_ratio, HEALTH_THRESHOLDS.fixed_ratio_max))]

---------------------------------------------------------------------------
(* calc_profitability *)

PROFIT_GUIDE ==
    [gross_margin_range |-> << <<1, 5>>, <<2, 5>> >>,
     op_margin_good |-> <<1, 20>>, op_margin_high |-> <<1, 10>>,
     net_margin_good |-> <<1, 20>>, net_margin_thin |-> <<3, 100>>,
     roe_excellent |-> <<1, 10>>, roe_low |-> <<1, 20>>, roa_efficient |-> <<1, 20>>]

\* judge_opm: high / sound / low
judge_opm(x) ==
    IF x = None THEN ""
    ELSE IF RLe(PROFIT_GUIDE.op_margin_high, Val(x)) THEN "high"
    ELSE IF RLe(PROFIT_GUIDE.op_margin_good, Val(x)) THEN "sound"
    ELSE "low"

\* judge_nm: good / thin / middle
judge_nm(x) ==
    IF x = None THEN ""
    ELSE IF RLe(PROFIT_GUIDE.net_margin_good, Val(x)) THEN "good"
    ELSE IF RLe(Val(x), PROFIT_GUIDE.net_margin_thin) THEN "thin"
    ELSE "middle"

\* judge_roe: excellent / low / middle
judge_roe(x) ==
    IF x = None THEN ""
    ELSE IF RLe(PROFIT_GUIDE.roe_excellent, Val(x)) THEN "excellent"
    ELSE IF RLe(Val(x), PROFIT_GUIDE.roe_low) THEN "low"
    ELSE "middle"

\* judge_roa: efficient / ordinary
judge_roa(x) ==
    IF x = None THEN ""
    ELSE IF RLe(PROFIT_GUIDE.roa_efficient, Val(x)) THEN "efficient" ELSE "ordinary"

ProfitRow(x, verdict) == [value |-> x, pct |-> fmt_pct(x), verdict |-> verdict]

\* calc_profitability(current): the six rows.
calc_profitability(c) ==
    LET sales == OrElse(Num(GetOpt(c, "sales")), Rat(0))
        gross == RSub(OrElse(Num(GetOpt(c, "sales")), Rat(0)),
                      OrElse(Num(GetOpt(c, "cogs")), Rat(0)))
        op == Num(GetOpt(c, "op"))
        ord_ == Num(GetOpt(c, "ord"))
        net == Num(GetOpt(c, "net"))
        gm == IF sales[1] # 0 THEN safe_div_q(Some(gross), Some(sales)) ELSE None
        opm == IF sales[1] # 0 THEN safe_div_q(op, Some(sales)) ELSE None
        orm == IF sales[1] # 0 /\ ord_ # None THEN safe_div_q(ord_, Some(sales)) ELSE None
        nm == IF sales[1] # 0 THEN safe_div_q(net, Some(sales)) ELSE None
        roe == safe_div_q(net, Num(GetOpt(c, "equity")))
        roa == safe_div_q(net, Num(GetOpt(c, "assets")))
    IN  [gm |-> ProfitRow(gm,
                   IF gm # None /\ RLe(PROFIT_GUIDE.gross_margin_range[1], Val(gm))
                                /\ RLe(Val(gm), PROFIT_GUIDE.gross_margin_range[2])
                   THEN "OK" ELSE "CHK"),
         opm |-> ProfitRow(opm, judge_opm(opm)),
         orm |-> ProfitRow(orm, IF orm = None THEN "" ELSE "OK"),
         nm |-> ProfitRow(nm, judge_nm(nm)),
         roe |-> ProfitRow(roe, judge_roe(roe)),
         roa |-> ProfitRow(roa, judge_roa(roa))]

---------------------------------------------------------------------------
(* calc_growth *)

\* calc_growth.g(cur, prev)
g(cur_v, prev_v) ==
    IF prev_v # None /\ Val(prev_v)[1] # 0
    THEN safe_div_q(Some(RSub(OrElse(cur_v, Rat(0)), OrElse(prev_v, Rat(0)))), prev_v)
    ELSE None

\* np.mean([x, y]) when both values are truthy, None otherwise.
avg_if_both(x, y) ==
    IF Truthy(x) /\ Truthy(y) THEN Some(RDiv(RAdd(Val(x), Val(y)), Rat(2))) ELSE None

\* calc_growth(current, previous): the five values and what is displayed for each
\* (a percentage for the growth rows, one decimal for the turnover rows).
calc_growth(c, p) ==
    LET sales_g == g(Num(GetOpt(c, "sales")), Num(GetOpt(p, "sales")))
        op_g == g(Num(GetOpt(c, "op")), Num(GetOpt(p, "op")))
        net_g == g(Num(GetOpt(c, "net")), Num(GetOpt(p, "net")))
        avg_assets == avg_if_both(Num(GetOpt(c, "assets")), Num(GetOpt(p, "assets")))
        asset_turn == safe_div_q(Num(GetOpt(c, "sales")), avg_assets)
        avg_ar == avg_if_both(Num(GetOpt(c, "ar")), Num(GetOpt(p, "ar")))
        ar_turn == safe_div_q(Num(GetOpt(c, "sales")), avg_ar)
    IN  [sales_g |-> [value |-> sales_g, disp |-> fmt_pct(sales_g)],
         op_g |-> [value |-> op_g, disp |-> fmt_pct(op_g)],
         net_g |-> [value |-> net_g, disp |-> fmt_pct(net_g)],
         asset_turn |-> [value |-> asset_turn, disp |-> fmt_1f(asset_turn)],
         ar_turn |-> [value |-> ar_turn, disp |-> fmt_1f(ar_turn)]]

---------------------------------------------------------------------------
(* calc_income_value *)

\* DEFAULT_WACC = 0.10, BULL_GROWTH = 0.20, DCF_HORIZON_YEARS = 10
DEFAULT_WACC == <<1, 10>>
BULL_GROWTH == <<1, 5>>
DCF_HORIZON_YEARS == 10

\* pv_cf(cf, r, t) = cf / ((1 + r) ** t)
pv_cf(cf, r, t) == RDiv(cf, RPow(RAdd(Rat(1), r), t))

\* sum(pv_cf(cf, r, t) for t in range(lo, hi + 1))
RECURSIVE FlatSum(_, _, _, _)
FlatSum(cf, r, lo, hi) ==
    IF hi < lo THEN Rat(0) ELSE RAdd(FlatSum(cf, r, lo, hi - 1), pv_cf(cf, r, hi))

\* sum(pv_cf(fcf * (1 + growth) ** t, r, t) for t in range(lo, hi + 1))
RECURSIVE GrowthSum(_, _, _, _, _)
GrowthSum(fcf, growth_rate, r, lo, hi) ==
    IF hi < lo THEN Rat(0)
    ELSE RAdd(GrowthSum(fcf, growth_rate, r, lo, hi - 1),
              pv_cf(RMul(fcf, RPow(RAdd(Rat(1), growth_rate), hi)), r, hi))

\* weak_pv: the flat cash flow over the horizon and the terminal value.
weak_pv(fcf, wacc, horizon) ==
    RAdd(FlatSum(fcf, wacc, 1, horizon),
         RDiv(RDiv(fcf, wacc), RPow(RAdd(Rat(1), wacc), horizon)))

\* strong_pv: five years of growth, the year-5 cash flow for the years 6..horizon,
\* and the terminal value.
strong_pv(fcf, growth_rate, wacc, horizon) ==
    LET strong_fcf5 == RMul(fcf, RPow(RAdd(Rat(1), growth_rate), 5))
    IN  RAdd(RAdd(GrowthSum(fcf, growth_rate, wacc, 1, 5),
                  FlatSum(strong_fcf5, wacc, 6, horizon)),
             RDiv(RDiv(strong_fcf5, wacc), RPow(RAdd(Rat(1), wacc), horizon)))

\* calc_income_value(current) under a configuration cfg of BULL_GROWTH and
\* DCF_HORIZON_YEARS.  wacc is never falsy here (`or DEFAULT_WACC`), so the
\* `if wacc` branches of weak and strong are the division.
calc_income_value(c, cfg) ==
    LET wacc == OrElse(Rate(GetOpt(c, "wacc")), DEFAULT_WACC)
        fcf == OrElse(Num(GetOpt(c, "fcf")), Rat(0))
        netcash == RSub(RAdd(OrElse(Num(GetOpt(c, "cash")), Rat(0)),
                             OrElse(Num(GetOpt(c, "stinv")), Rat(0))),
                        OrElse(Num(GetOpt(c, "debt")), Rat(0)))
        weak == RAdd(netcash, IF wacc[1] # 0 THEN RDiv(fcf, wacc) ELSE Rat(0))
        strong == IF wacc[1] # 0
                  THEN RAdd(netcash,
                            RDiv(RMul(fcf, RPow(RAdd(Rat(1), cfg.bull_growth), 5)), wacc))
                  ELSE netcash
    IN  [weak_simple |-> weak, strong_simple |-> strong,
         weak_dcf |-> RAdd(netcash, weak_pv(fcf, wacc, cfg.horizon)),
         strong_dcf |-> RAdd(netcash, strong_pv(fcf, cfg.bull_growth, wacc, cfg.horizon))]

---------------------------------------------------------------------------
(* calc_price_metrics *)

\* f"{v:.2f}" as the number of hundredths, fmt_num(v, 0) as the whole number.
fmt_2f(x) == IF x = None THEN None ELSE Some(RoundHalfEven(RMul(Val(x), Rat(100))))
fmt_num0(x) == IF x = None THEN None ELSE Some(RoundHalfEven(Val(x)))

\* calc_price_metrics(current, previous): the column of values and the column of
\* what is displayed.
calc_price_metrics(c, p) ==
    LET price == OrElse(Num(GetOpt(c, "price")), Rat(0))
        shares == IF Truthy(Num(GetOpt(c, "shares"))) THEN Num(GetOpt(c, "shares")) ELSE None
        mktcap == IF price[1] # 0 /\ shares # None THEN Some(RMul(price, Val(shares))) ELSE None
        cash_like == RAdd(OrElse(Num(GetOpt(c, "cash")), Rat(0)),
                          OrElse(Num(GetOpt(c, "stinv")), Rat(0)))
        ev == IF mktcap # None
              THEN Some(RSub(RAdd(Val(mktcap), OrElse(Num(GetOpt(c, "debt")), Rat(0))), cash_like))
              ELSE None
        ni == Num(GetOpt(c, "net"))
        ocf == Num(GetOpt(c, "ocf"))
        sales == Num(GetOpt(c, "sales"))
        equity == Num(GetOpt(c, "equity"))
        ebitda == Num(GetOpt(c, "ebitda"))
        tax == OrElse(Rate(GetOpt(c, "tax")), Rat(0))
        op == Num(GetOpt(c, "op"))
        invested == RSub(RAdd(OrElse(Num(GetOpt(c, "debt")), Rat(0)),
                              OrElse(Num(GetOpt(c, "equity")), Rat(0))), cash_like)
        nopat == IF op # None THEN Some(RMul(OrElse(op, Rat(0)), RSub(Rat(1), tax))) ELSE None
        per == IF mktcap # None THEN safe_div_q(mktcap, ni) ELSE None
        pcfr == IF mktcap # None THEN safe_div_q(mktcap, ocf) ELSE None
        psr == IF mktcap # None THEN safe_div_q(mktcap, sales) ELSE None
        pbr == IF mktcap # None THEN safe_div_q(mktcap, equity) ELSE None
        ey == IF mktcap # None THEN safe_div_q(ni, mktcap) ELSE None
        ev_ebitda == IF ev # None THEN safe_div_q(ev, ebitda) ELSE None
        roic == IF nopat # None THEN safe_div_q(nopat, Some(invested)) ELSE None
        avg_assets == avg_if_both(Num(GetOpt(c, "assets")), Num(GetOpt(p, "assets")))
        accruals == IF avg_assets # None
                    THEN safe_div_q(Some(RSub(OrElse(ni, Rat(0)), OrElse(ocf, Rat(0)))), avg_assets)
                    ELSE None
        per_pbr == IF per # None /\ pbr # None THEN Some(RMul(Val(per), Val(pbr))) ELSE None
    IN  [value |-> [price |-> Some(price), per |-> per, pcfr |-> pcfr, psr |-> psr,
                    pbr |-> pbr, ey |-> ey, per_pbr |-> per_pbr, ev_ebitda |-> ev_ebitda,
                    roic |-> roic, accruals |-> accruals, mktcap |-> mktcap],
         disp |-> [price |-> fmt_num0(Some(price)), per |-> fmt_2f(per), pcfr |-> fmt_2f(pcfr),
                   psr |-> fmt_2f(psr), pbr |-> fmt_2f(pbr), ey |-> fmt_pct(ey),
                   per_pbr |-> fmt_2f(per_pbr), ev_ebitda |-> fmt_2f(ev_ebitda),
                   roic |-> fmt_pct(roic), accruals |-> fmt_pct(accruals),
                   mktcap |-> fmt_num0(mktcap)]]

---------------------------------------------------------------------------
(* Specification of the Metrics Engine: one call of a calc_ function on any
   snapshot *)

\* Longest horizon of the configurations tried besides the configured one.
MaxHorizon == 6

Opt(S) == {None} \cup {Some(v) : v \in S}

\* A snapshot as build_payload returns it, with the values of obs in place.
Payload(obs) ==
    [k \in PayloadKeys |-> IF k \in DOMAIN obs THEN obs[k] ELSE build_payload(EmptyDict)[k]]

\* Snapshots handed to calc_health: balance-sheet concepts missing, zero, at a
\* threshold or past it.
HealthInputs ==
    {Payload(obs) : obs \in [assets : Opt({0, 500}), equity : Opt({0, 400, 450}),
                             tl : Opt({0, 800, 1000})]}
    \cup {Payload(obs) : obs \in [ca : Opt({0, 200}), cl : Opt({0, 100}),
                                  inv : Opt({0, 100, 150})]}
    \cup {Payload(obs) : obs \in [equity : Opt({0, 400}), ppe : Opt({0, 400}),
                                  intan : Opt({0, 50}), invest : Opt({0})]}

\* Snapshots handed to calc_profitability.
ProfitInputs ==
    {Payload(obs) : obs \in [sales : Opt({0, 1000}), cogs : Opt({600, 700}),
                             op : Opt({120}), ord : Opt({110}), net : Opt({50}),
                             equity : Opt({400})]}

\* Pairs of snapshots handed to calc_growth; the previous one may be the empty
\* mapping.
GrowthCurrents ==
    {Payload(obs) : obs \in [sales : Opt({0, 120}), op : Opt({-10}), assets : Opt({0, 50}),
                             ar : Opt({40})]}
GrowthPreviouses ==
    {EmptyDict} \cup
    {Payload(obs) : obs \in [sales : Opt({0, 100}), op : Opt({20}), assets : Opt({0, 150}),
                             ar : Opt({60})]}

\* Snapshots handed to calc_income_value, the discount rate in percent.
IncomeInputs ==
    {Payload(obs) : obs \in [fcf : Opt({0, 3, -2}), cash : Opt({2}), debt : Opt({1}),
                             wacc : Opt({0, 10, 50})]}

\* The same snapshots carrying a bull-growth rate of their own, in percent, under
\* the key "bull_growth" (calc_income_value reads no key for it, whatever its name).
WithBullGrowth(c, pct) ==
    [k \in DOMAIN c \cup {"bull_growth"} |-> IF k = "bull_growth" THEN Some(pct) ELSE c[k]]
IncomeInputsWithGrowth == {WithBullGrowth(c, pct) : c \in IncomeInputs, pct \in {0, 50}}

\* Settings of BULL_GROWTH and DCF_HORIZON_YEARS tried with them.
Configs == [bull_growth : {Rat(0), BULL_GROWTH}, horizon : {3, 5, MaxHorizon}]
Configured == [bull_growth |-> BULL_GROWTH, horizon |-> DCF_HORIZON_YEARS]

\* Snapshots handed to calc_price_metrics.
PriceCurrents ==
    {Payload(obs) : obs \in [price : Opt({0, 1000}), shares : Opt({0, 100}),
                             net : Opt({0, 50000}), ocf : Opt({30000}), op : Opt({10}),
                             debt : Opt({20}), equity : Opt({100}), cash : Opt({20}),
                             assets : Opt({500})]}
PricePreviouses == {EmptyDict, Payload([assets |-> Some(300)])}

InitMetrics ==
    /\ \/ pc = "call_health" /\ current \in HealthInputs /\ previous = EmptyDict
          /\ config = Configured
       \/ pc = "call_profitability" /\ current \in ProfitInputs /\ previous = EmptyDict
          /\ config = Configured
       \/ pc = "call_growth" /\ current \in GrowthCurrents /\ previous \in GrowthPreviouses
          /\ config = Configured
       \/ pc = "call_income_value" /\ current \in IncomeInputs \cup IncomeInputsWithGrowth
          /\ previous = EmptyDict
          /\ \/ config \in Configs
             \/ config = Configured /\ current["wacc"] = Some(50)
       \/ pc = "call_price_metrics" /\ current \in PriceCurrents
          /\ previous \in PricePreviouses /\ config = Configured
    /\ health = EmptyDict /\ profitability = EmptyDict /\ growth = EmptyDict
    /\ income_value = EmptyDict /\ price_metrics = EmptyDict
    /\ series = EmptyDict /\ cur = EmptyDict /\ prev = EmptyDict
    /\ cur_date = None /\ prev_date = None
    /\ ticker = <<>> /\ sec_code_4 = <<>>
    /\ IdlePick /\ IdleScan /\ IdleDiv /\ IdleParse

CallCalcHealth ==
    /\ pc = "call_health"
    /\ health' = calc_health(current)
    /\ pc' = "health_done"
    /\ UNCHANGED <<config, profitability, growth, income_value, price_metrics, periodVars,
                   ticker, sec_code_4, pickVars, scanVars, divVars, parseVars>>

CallCalcProfitability ==
    /\ pc = "call_profitability"
    /\ profitability' = calc_profitability(current)
    /\ pc' = "profitability_done"
    /\ UNCHANGED <<config, health, growth, income_value, price_metrics, periodVars,
                   ticker, sec_code_4, pickVars, scanVars, divVars, parseVars>>

CallCalcGrowth ==
    /\ pc = "call_growth"
    /\ growth' = calc_growth(current, previous)
    /\ pc' = "growth_done"
    /\ UNCHANGED <<config, health, profitability, income_value, price_metrics, periodVars,
                   ticker, sec_code_4, pickVars, scanVars, divVars, parseVars>>

CallCalcIncomeValue ==
    /\ pc = "call_income_value"
    /\ income_value' = calc_income_value(current, config)
    /\ pc' = "income_value_done"
    /\ UNCHANGED <<config, health, profitability, growth, price_metrics, periodVars,
                   ticker, sec_code_4, pickVars, scanVars, divVars, parseVars>>

CallCalcPriceMetrics ==
    /\ pc = "call_price_metrics"
    /\ price_metrics' = calc_price_metrics(current, previous)
    /\ pc' = "price_metrics_done"
    /\ UNCHANGED <<config, health, profitability, growth, income_value, periodVars,
                   ticker, sec_code_4, pickVars, scanVars, divVars, parseVars>>

NextMetrics ==
    \/ CallCalcHealth \/ CallCalcProfitability \/ CallCalcGrowth
    \/ CallCalcIncomeValue \/ CallCalcPriceMetrics

SpecMetrics == InitMetrics /\ [][NextMetrics]_vars

---------------------------------------------------------------------------
(* Metrics Engine claims *)

\* The concept k is missing from the current snapshot.
IsNull(k) == GetOpt(current, k) = None

\* C16: a null input concept never becomes zero implicitly; every ratio whose
\* formula uses a null concept is itself null: gross margin when COGS is null, quick
\* ratio when inventory or current assets is null, fixed ratio when PP&E, intangibles
\* or investments is null, ROIC when debt, equity or cash is null, the accruals ratio
\* when net income or operating cash flow is null.
C16_NullPropagates ==
    /\ pc = "profitability_done" =>
           (IsNull("cogs") => profitability.gm.value = None)
    /\ pc = "health_done" =>
           /\ (IsNull("inv") \/ IsNull("ca")) => health.quick_ratio.value = None
           /\ (IsNull("ppe") \/ IsNull("intan") \/ IsNull("invest")) =>
                  health.fixed_ratio.value = None
    /\ pc = "price_metrics_done" =>
           /\ (IsNull("debt") \/ IsNull("equity") \/ IsNull("cash")) =>
                  price_metrics.value.roic = None
           /\ (IsNull("net") \/ IsNull("ocf")) => price_metrics.value.accruals = None

\* C16, what the code does keep: the ratios computed by _safe_div on the concepts
\* themselves (equity ratio, current ratio, the margins over sales, ROE, ROA) are
\* null whenever one of their two concepts is null, and debt-to-equity as well.
C16_PlainRatiosPropagate ==
    /\ pc = "health_done" =>
           /\ (IsNull("equity") \/ IsNull("assets")) => health.equity_ratio.value = None
           /\ (IsNull("tl") \/ IsNull("equity")) => health.debt_to_equity.value = None
           /\ (IsNull("ca") \/ IsNull("cl")) => health.current_ratio.value = None
    /\ pc = "profitability_done" =>
           /\ (IsNull("op") \/ IsNull("sales")) => profitability.opm.value = None
           /\ (IsNull("ord") \/ IsNull("sales")) => profitability.orm.value = None
           /\ (IsNull("net") \/ IsNull("sales")) => profitability.nm.value = None
           /\ (IsNull("net") \/ IsNull("equity")) => profitability.roe.value = None
           /\ (IsNull("net") \/ IsNull("assets")) => profitability.roa.value = None

\* C16, the failing input: sales 1000 with COGS missing gives a gross margin of 100%.
C16_GrossMarginWithoutCogs ==
    /\ pc = "profitability_done"
    /\ current["sales"] = Some(1000) /\ IsNull("cogs")
    /\ profitability.gm.value = Some(Rat(1)) /\ profitability.gm.pct = Some(1000)

\* C17: missing data never passes a health check: for each of the five rows, if any
\* concept used by the row's ratio is null in the snapshot, the verdict is NG.
C17_MissingNeverPasses ==
    pc = "health_done" =>
        /\ (IsNull("equity") \/ IsNull("assets")) => health.equity_ratio.verdict = "NG"
        /\ (IsNull("tl") \/ IsNull("equity")) => health.debt_to_equity.verdict = "NG"
        /\ (IsNull("ca") \/ IsNull("cl")) => health.current_ratio.verdict = "NG"
        /\ (IsNull("ca") \/ IsNull("inv") \/ IsNull("cl")) => health.quick_ratio.verdict = "NG"
        /\ (IsNull("ppe") \/ IsNull("intan") \/ IsNull("invest") \/ IsNull("equity")) =>
               health.fixed_ratio.verdict = "NG"

\* C17, what the code does keep: a row whose ratio is null is NG, so the three rows
\* computed on the concepts themselves never pass with a concept missing, and no row
\* passes with its denominator missing.
C17_NullRatioIsNG ==
    pc = "health_done" =>
        /\ \A row \in DOMAIN health : health[row].value = None => health[row].verdict = "NG"
        /\ (IsNull("equity") \/ IsNull("assets")) => health.equity_ratio.verdict = "NG"
        /\ (IsNull("tl") \/ IsNull("equity")) => health.debt_to_equity.verdict = "NG"
        /\ (IsNull("ca") \/ IsNull("cl")) => health.current_ratio.verdict = "NG"
        /\ IsNull("cl") => health.quick_ratio.verdict = "NG"
        /\ IsNull("equity") => health.fixed_ratio.verdict = "NG"

\* C17, the failing input: current assets 200 and current liabilities 100 with the
\* inventory missing pass the quick-ratio row at 200.0%.
C17_QuickRatioPassesWithoutInventory ==
    /\ pc = "health_done"
    /\ current["ca"] = Some(200) /\ current["cl"] = Some(100) /\ IsNull("inv")
    /\ health.quick_ratio.pct = Some(2000) /\ health.quick_ratio.verdict = "OK"

\* C17, a second failing input: intangibles 50 over an equity of 400 with PP&E
\* missing pass the fixed-ratio row.
C17_FixedRatioPassesWithoutPpe ==
    /\ pc = "health_done"
    /\ IsNull("ppe") /\ current["intan"] = Some(50) /\ current["equity"] = Some(400)
    /\ health.fixed_ratio.verdict = "OK"

\* The ratio num / den of the current snapshot as the health rows define it: defined
\* when every concept of it is present and the denominator is not zero.
RECURSIVE SumOf(_)
SumOf(keys) ==
    IF keys = <<>> THEN 0 ELSE Val(current[Head(keys)]) + SumOf(Tail(keys))
RatioDefined(keys, den) ==
    /\ \A n \in 1..Len(keys) : ~IsNull(keys[n])
    /\ ~IsNull(den) /\ Val(current[den]) # 0
RatioOf(keys, den) == Quotient(SumOf(keys), Val(current[den]))

FixedKeys == <<"ppe", "intan", "invest">>

\* C18: the thresholds decide the verdict exactly: the equity-ratio row is OK iff
\* equity/assets is defined and >= 0.80, the debt-to-equity row is OK iff total
\* liabilities/equity is defined and <= 2.0, the fixed-ratio row is OK iff
\* (PP&E + intangibles + investments)/equity is defined and <= 1.0, for every defined
\* ratio value, a ratio of 0 and a ratio equal to the threshold included.
C18_ThresholdsDecideExactly ==
    pc = "health_done" =>
        /\ health.equity_ratio.verdict = "OK" <=>
               (RatioDefined(<<"equity">>, "assets")
                /\ RLe(HEALTH_THRESHOLDS.equity_ratio_min, RatioOf(<<"equity">>, "assets")))
        /\ health.debt_to_equity.verdict = "OK" <=>
               (RatioDefined(<<"tl">>, "equity")
                /\ RLe(RatioOf(<<"tl">>, "equity"), HEALTH_THRESHOLDS.debt_to_equity_max))
        /\ health.fixed_ratio.verdict = "OK" <=>
               (RatioDefined(FixedKeys, "equity")
                /\ RLe(RatioOf(FixedKeys, "equity"), HEALTH_THRESHOLDS.fixed_ratio_max))

\* C18, what the code does keep: the equity-ratio row is exact, and the two "<=" rows
\* are exact for every defined ratio other than 0.
C18_ExactButForZero ==
    pc = "health_done" =>
        /\ health.equity_ratio.verdict = "OK" <=>
               (RatioDefined(<<"equity">>, "assets")
                /\ RLe(HEALTH_THRESHOLDS.equity_ratio_min, RatioOf(<<"equity">>, "assets")))
        /\ (RatioDefined(<<"tl">>, "equity") /\ RatioOf(<<"tl">>, "equity") # Rat(0)) =>
               (health.debt_to_equity.verdict = "OK" <=>
                    RLe(RatioOf(<<"tl">>, "equity"), HEALTH_THRESHOLDS.debt_to_equity_max))
        /\ (RatioDefined(FixedKeys, "equity") /\ RatioOf(FixedKeys, "equity") # Rat(0)) =>
               (health.fixed_ratio.verdict = "OK" <=>
                    RLe(RatioOf(FixedKeys, "equity"), HEALTH_THRESHOLDS.fixed_ratio_max))

\* C18, the example of the equity ratio: assets 500 and equity 450 give 90.0% and OK,
\* and equity 400 is at the threshold and OK.
C18_EquityRatioExample ==
    /\ pc = "health_done"
    /\ current["assets"] = Some(500) /\ current["equity"] = Some(450)
    /\ health.equity_ratio.pct = Some(900) /\ health.equity_ratio.verdict = "OK"

\* C18, debt-to-equity at the threshold: liabilities 800 over equity 400 are OK, 1000
\* over 400 are NG.
C18_DebtToEquityAtThreshold ==
    /\ pc = "health_done"
    /\ current["tl"] = Some(800) /\ current["equity"] = Some(400)
    /\ health.debt_to_equity.value = Some(Rat(2)) /\ health.debt_to_equity.verdict = "OK"

\* C18, the failing input: no liabilities at all over an equity of 400 is a
\* debt-to-equity of 0, and the row is NG.
C18_NoLiabilitiesIsNG ==
    /\ pc = "health_done"
    /\ current["tl"] = Some(0) /\ current["equity"] = Some(400)
    /\ health.debt_to_equity.value = None /\ health.debt_to_equity.verdict = "NG"

\* C18, a second failing input: no fixed assets over an equity of 400 is a fixed ratio
\* of 0 shown as 0.0%, and the row is NG.
C18_NoFixedAssetsIsNG ==
    /\ pc = "health_done"
    /\ current["ppe"] = Some(0) /\ current["intan"] = Some(0) /\ current["invest"] = Some(0)
    /\ current["equity"] = Some(400)
    /\ health.fixed_ratio.pct = Some(0) /\ health.fixed_ratio.verdict = "NG"

\* The growth row of each concept calc_growth compares year over year.
GrowthRows == [sales |-> "sales_g", op |-> "op_g", net |-> "net_g"]

\* The previous value of k is present and not zero.
PrevUsable(k) == GetOpt(previous, k) # None /\ Val(GetOpt(previous, k)) # 0

\* C19: for each of sales, operating profit and net profit the growth is null
\* whenever the previous value is null or zero (the previous snapshot being the empty
\* mapping included) and otherwise (current - previous)/previous, which is null for a
\* null current value; asset turnover and receivables turnover are null unless both
\* the current and the previous value of assets (resp. receivables) are present.
C19_GrowthAndTurnover ==
    pc = "growth_done" =>
        /\ \A k \in DOMAIN GrowthRows :
               growth[GrowthRows[k]].value =
                   IF ~PrevUsable(k) \/ IsNull(k) THEN None
                   ELSE Some(Quotient(Val(current[k]) - Val(previous[k]), Val(previous[k])))
        /\ growth.asset_turn.value # None =>
               (~IsNull("assets") /\ GetOpt(previous, "assets") # None)
        /\ growth.ar_turn.value # None =>
               (~IsNull("ar") /\ GetOpt(previous, "ar") # None)

\* C19, what the code does keep: the growth is null exactly when the previous value
\* is null or zero, it is (current - previous)/previous when the current value is
\* present, and the turnovers are null unless both values are present.
C19_GrowthWithCurrentPresent ==
    pc = "growth_done" =>
        /\ \A k \in DOMAIN GrowthRows :
               /\ growth[GrowthRows[k]].value = None <=> ~PrevUsable(k)
               /\ (PrevUsable(k) /\ ~IsNull(k)) =>
                      growth[GrowthRows[k]].value =
                          Some(Quotient(Val(current[k]) - Val(previous[k]), Val(previous[k])))
        /\ growth.asset_turn.value # None =>
               (~IsNull("assets") /\ GetOpt(previous, "assets") # None)
        /\ growth.ar_turn.value # None =>
               (~IsNull("ar") /\ GetOpt(previous, "ar") # None)

\* C19, the cases that hold: sales 120 after 100 grow by 20.0%, and with assets 50
\* after 150 the asset turnover is 120 / 100 = 1.2.
C19_GrowthExample ==
    /\ pc = "growth_done"
    /\ current["sales"] = Some(120) /\ GetOpt(previous, "sales") = Some(100)
    /\ growth.sales_g.disp = Some(200)
    /\ current["assets"] = Some(50) /\ GetOpt(previous, "assets") = Some(150)
    /\ growth.asset_turn.disp = Some(12)

\* C19, the failing input: current sales missing after sales of 100 show a growth of
\* -100.0%.
C19_MissingCurrentShrinksFully ==
    /\ pc = "growth_done"
    /\ IsNull("sales") /\ GetOpt(previous, "sales") = Some(100)
    /\ growth.sales_g.value = Some(Rat(-1)) /\ growth.sales_g.disp = Some(-1000)

C20_CollapsesFromFiveYears ==
    (pc = "income_value_done" /\ config.bull_growth = Rat(0)) =>
        /\ income_value.strong_simple = income_value.weak_simple
        /\ config.horizon >= 5 => income_value.strong_dcf = income_value.weak_dcf

\* C20, a case that holds: FCF 3 at 10% over 5 years, cash 2 and debt 1, is worth
\* 1 + 30 in both cases.
C20_CollapseExample ==
    /\ pc = "income_value_done" /\ config.bull_growth = Rat(0) /\ config.horizon = 5
    /\ current["fcf"] = Some(3) /\ current["wacc"] = Some(10)
    /\ current["cash"] = Some(2) /\ current["debt"] = Some(1)
    /\ income_value.weak_dcf = Rat(31) /\ income_value.strong_dcf = Rat(31)

\* C20, the failing input: over a horizon of 3 years the strong case still adds the
\* years 4 and 5, so FCF 3 at 10% is worth 30 in the weak case and
\* 30 + 3/1.1^4 + 3/1.1^5 in the strong one.
C20_ShortHorizonDiffers ==
    /\ pc = "income_value_done" /\ config.bull_growth = Rat(0) /\ config.horizon = 3
    /\ current["fcf"] = Some(3) /\ current["wacc"] = Some(10)
    /\ IsNull("cash") /\ IsNull("debt")
    /\ income_value.weak_dcf = Rat(30)
    /\ income_value.strong_dcf =
           RAdd(Rat(30), RAdd(Quotient(3 * 10000, 14641), Quotient(3 * 100000, 161051)))

\* The cash flow and the net cash position calc_income_value takes from the current
\* snapshot.
SnapshotFcf == OrElse(Num(GetOpt(current, "fcf")), Rat(0))
SnapshotNetCash ==
    RSub(RAdd(OrElse(Num(GetOpt(current, "cash")), Rat(0)),
              OrElse(Num(GetOpt(current, "stinv")), Rat(0))),
         OrElse(Num(GetOpt(current, "debt")), Rat(0)))

\* The discount rate and the bull-growth rate of a valuation whose parameters the
\* snapshot overrides: the snapshot's own when it provides one, else the configured.
OwnWacc ==
    IF IsNull("wacc") THEN DEFAULT_WACC ELSE Val(Rate(current["wacc"]))
OwnBullGrowth ==
    IF IsNull("bull_growth") THEN config.bull_growth ELSE Val(Rate(current["bull_growth"]))

\* C21: both valuation parameters are overridable per snapshot: calc_income_value
\* uses the snapshot's own WACC and the snapshot's own bull-growth rate when the
\* snapshot provides them and the configured defaults only for a parameter the
\* snapshot does not provide (stated for a WACC other than 0, which divides by zero).
C21_BothParametersOverridable ==
    (pc = "income_value_done" /\ OwnWacc # Rat(0)) =>
        /\ income_value.weak_simple =
               RAdd(SnapshotNetCash, RDiv(SnapshotFcf, OwnWacc))
        /\ income_value.strong_simple =
               RAdd(SnapshotNetCash,
                    RDiv(RMul(SnapshotFcf, RPow(RAdd(Rat(1), OwnBullGrowth), 5)), OwnWacc))
        /\ income_value.weak_dcf =
               RAdd(SnapshotNetCash, weak_pv(SnapshotFcf, OwnWacc, config.horizon))
        /\ income_value.strong_dcf =
               RAdd(SnapshotNetCash,
                    strong_pv(SnapshotFcf, OwnBullGrowth, OwnWacc, config.horizon))

\* C21, what the code does keep: the snapshot's own WACC is used when it is present
\* and not 0 and the default of 10% otherwise, while the bull-growth rate is always
\* the configured one.
C21_OnlyWaccOverridable ==
    pc = "income_value_done" =>
        LET wacc == IF IsNull("wacc") \/ current["wacc"] = Some(0) THEN DEFAULT_WACC
                    ELSE OwnWacc
        IN  /\ income_value.weak_simple = RAdd(SnapshotNetCash, RDiv(SnapshotFcf, wacc))
            /\ income_value.strong_simple =
                   RAdd(SnapshotNetCash,
                        RDiv(RMul(SnapshotFcf, RPow(RAdd(Rat(1), config.bull_growth), 5)),
                             wacc))
            /\ income_value.strong_dcf =
                   RAdd(SnapshotNetCash,
                        strong_pv(SnapshotFcf, config.bull_growth, wacc, config.horizon))

\* C21, the WACC of the snapshot at work: FCF 3 at the snapshot's 50% is worth 6 in
\* the weak simple case, and 30 at the default when the snapshot has no WACC.
C21_SnapshotWaccUsed ==
    /\ pc = "income_value_done"
    /\ current["fcf"] = Some(3) /\ IsNull("cash") /\ IsNull("debt")
    /\ \/ current["wacc"] = Some(50) /\ income_value.weak_simple = Rat(6)
       \/ IsNull("wacc") /\ income_value.weak_simple = Rat(30)

\* C21, the failing input: a snapshot with a bull-growth rate of 0 of its own under
\* the configured 20% is valued with the 20%: FCF 3 at 10% gives a strong simple value
\* of 3 * 1.2^5 / 0.1 = 74.6496 where the snapshot's rate gives 30.
C21_SnapshotGrowthIgnored ==
    /\ pc = "income_value_done" /\ config.bull_growth = BULL_GROWTH
    /\ GetOpt(current, "bull_growth") = Some(0)
    /\ current["fcf"] = Some(3) /\ current["wacc"] = Some(10)
    /\ IsNull("cash") /\ IsNull("debt")
    /\ income_value.strong_simple = Quotient(746496, 10000)

\* The price-derived multiples of calc_price_metrics.
MktcapMultiples == {"per", "pcfr", "psr", "pbr", "ey", "per_pbr", "ev_ebitda"}

\* Every multiple derived from market cap is null, value and display, when market
\* cap is null.
MultiplesNullWithoutMktcap ==
    price_metrics.value.mktcap = None =>
        \A m \in MktcapMultiples :
            price_metrics.value[m] = None /\ price_metrics.disp[m] = None

\* C22 as amended: market cap equals price x shares when both are present and not
\* zero and is null otherwise; PER equals market cap / net income and is null when
\* market cap is null or net income is null or zero; every multiple derived from
\* market cap is null whenever market cap is null.
C22_MarketCapOfNonZeroPriceAndShares ==
    pc = "price_metrics_done" =>
        LET has == /\ ~IsNull("price") /\ Val(current["price"]) # 0
                   /\ ~IsNull("shares") /\ Val(current["shares"]) # 0
            cap == Val(current["price"]) * Val(current["shares"])
        IN  /\ price_metrics.value.mktcap = IF has THEN Some(Rat(cap)) ELSE None
            /\ price_metrics.value.per =
                   IF has /\ ~IsNull("net") /\ Val(current["net"]) # 0
                   THEN Some(Quotient(cap, Val(current["net"]))) ELSE None
            /\ MultiplesNullWithoutMktcap

\* C22 as stated: market cap equals price x shares and is null if either price or
\* shares is missing; PER equals market cap / net income and is null when market cap
\* is null or net income is null or zero; every multiple derived from market cap is
\* null whenever market cap is null.
C22_MarketCapOfPresentPriceAndShares ==
    pc = "price_metrics_done" =>
        LET has == ~IsNull("price") /\ ~IsNull("shares")
            cap == Val(current["price"]) * Val(current["shares"])
        IN  /\ price_metrics.value.mktcap = IF has THEN Some(Rat(cap)) ELSE None
            /\ price_metrics.value.per =
                   IF has /\ ~IsNull("net") /\ Val(current["net"]) # 0
                   THEN Some(Quotient(cap, Val(current["net"]))) ELSE None
            /\ MultiplesNullWithoutMktcap

\* C22 witness: price 1000, shares 100 and net income 50000 give a market cap of
\* 100000 and a PER of 2.0, displayed as 100000 and 2.00.
C22_Witness ==
    /\ pc = "price_metrics_done"
    /\ current["price"] = Some(1000) /\ current["shares"] = Some(100)
    /\ current["net"] = Some(50000)
    /\ price_metrics.value.mktcap = Some(Rat(100000)) /\ price_metrics.disp.mktcap = Some(100000)
    /\ price_metrics.value.per = Some(Rat(2)) /\ price_metrics.disp.per = Some(200)

\* C22, the case the statement misses: a price of 0 with 100 shares has no market cap
\* (not a market cap of 0), and a net income of 0 under a market cap has no PER.
C22_ZeroPriceHasNoMarketCap ==
    /\ pc = "price_metrics_done"
    /\ current["price"] = Some(0) /\ current["shares"] = Some(100)
    /\ price_metrics.value.mktcap = None /\ price_metrics.value.per = None

---------------------------------------------------------------------------
(* The alias table as last resort (checked under SpecPick) *)

\* The documents of the result set that match the searched code in
\* edinet_pick_latest_doc_debug.
DebugCodeMatches == {r \in ResultDocs : match_sec_debug(r, sec_code_4)}

\* C23: in edinet_pick_latest_doc_debug the alias table is a last resort: when code
\* matches exist in the result set the returned document is one of the code matches,
\* or none exactly when no code match is in any of the three tiers; a document that
\* is no code match is returned only when no document matches by code, and then it
\* matches the first alias name that has a match in any tier and belongs to the
\* highest-priority tier holding a match of that name.
C23_AliasIsLastResort ==
    pc = "picked_debug" =>
        /\ DebugCodeMatches # {} =>
               /\ picked # NoneDoc => picked \in DebugCodeMatches
               /\ picked = NoneDoc <=> \A r \in DebugCodeMatches : ~Tiered(r)
        /\ (picked # NoneDoc /\ picked \notin DebugCodeMatches) =>
               /\ DebugCodeMatches = {}
               /\ sec_code_4 \in DOMAIN company_names
               /\ LET names == company_names[sec_code_4]
                      hasTiered(j) == \E r \in ResultDocs : NameMatch(r, names[j]) /\ Tiered(r)
                  IN  \E j \in 1..Len(names) :
                          /\ hasTiered(j) /\ \A j2 \in 1..(j - 1) : ~hasTiered(j2)
                          /\ picked \in ResultDocs /\ NameMatch(picked, names[j])
                          /\ \E t \in 1..Len(EDINET_FORMS) :
                                 /\ InTier(picked, t)
                                 /\ \A r \in ResultDocs :
                                        NameMatch(r, names[j]) =>
                                            \A t2 \in 1..(t - 1) : ~InTier(r, t2)

\* C23 witness: a code match filed under a form outside the three tiers stands beside
\* an alias match in the annual tier, and nothing is returned.
C23_Witness ==
    /\ pc = "picked_debug" /\ sec_code_4 # <<>> /\ Len(results) = 2
    /\ match_sec_debug(results[1], sec_code_4) /\ ~Tiered(results[1])
    /\ ~match_sec_debug(results[2], sec_code_4) /\ AliasMatch(results[2])
    /\ InTier(results[2], 1)
    /\ picked = NoneDoc

\* C23, the alias branch at work: the first alias name matches only a document
\* outside the tiers, the second name a quarterly report, which is returned.
C23_SecondNameDecides ==
    /\ pc = "picked_debug" /\ Len(results) = 2 /\ DebugCodeMatches = {}
    /\ NameMatch(results[1], company_names[sec_code_4][1]) /\ ~Tiered(results[1])
    /\ NameMatch(results[2], company_names[sec_code_4][2]) /\ InTier(results[2], 2)
    /\ picked = results[2]

---------------------------------------------------------------------------
(* Diagnostics of the day scan (checked under SpecScan) *)

\* The days queried so far whose index query succeeded, in scan order.
AnsweredDays == SelectSeq(dayLog, LAMBDA e : e.ok)

\* C24: at every point of the scan the per-day count list holds exactly one
\* (date, result count) entry for each day whose index query succeeded so far, in
\* scan order (most recent day first), the day of the match included; a day whose
\* index query failed contributes no entry, so the list is never longer than the
\* number of days queried.
C24_CountListFollowsAnsweredDays ==
    /\ Len(test_results) = Len(AnsweredDays)
    /\ \A k \in 1..Len(test_results) :
           test_results[k] = <<AnsweredDays[k].date, Len(AnsweredDays[k].results)>>
    /\ \A k \in 1..(Len(test_results) - 1) : test_results[k][1] > test_results[k + 1][1]
    /\ chosen # NoneDoc =>
           /\ test_results # <<>>
           /\ test_results[Len(test_results)] = <<dayLog[Len(dayLog)].date, Len(results)>>
    /\ Len(test_results) <= nQueries
    /\ err.kind = "notfound" => err.counts = test_results

\* C24 witness: three days were queried, the query of the second one failed, the
\* match was found on the third: the list holds the first and the third day, the
\* third with the size of the result set the document was picked from.
C24_Witness ==
    /\ nQueries = 3 /\ Len(dayLog) = 3 /\ chosen # NoneDoc
    /\ dayLog[1].ok /\ ~dayLog[2].ok /\ dayLog[3].ok
    /\ Len(test_results) = 2
    /\ test_results[1] = <<Today, Len(dayLog[1].results)>>
    /\ test_results[2] = <<Today - 2, Len(results)>> /\ Len(results) > 0

====
